---- MODULE Spec2Model ----
(***************************************************************************)
(* Model of the Terraform variable resolution engine:                      *)
(*   TerraformCache            (utils/cache)                               *)
(*   TerraformVariableResolver (resolvers/variableResolver)                *)
(*   TerraformParser           (parsers/terraformParser), at token level   *)
(*                                                                         *)
(* Text is modelled as a sequence of atoms.  A path is a sequence of       *)
(* segments, a segment a sequence of characters, so that startsWith and    *)
(* includes on rendered paths and cache keys work as on the strings.       *)
(* A value is a sequence of tokens: literals and references (var.x,        *)
(* local.y, module.m.out).  A file is the result of the parser's pattern   *)
(* matching over it: its assignments, locals, outputs and module blocks.   *)
(***************************************************************************)
EXTENDS Integers, Sequences, FiniteSets, TLC

VARIABLES fs, cache, resolvedModulePaths, now, last, stale, ops, inflight, cleanupInterval

vars == <<fs, cache, resolvedModulePaths, now, last, stale, ops, inflight, cleanupInterval>>

(***************************************************************************)
(* Program constants and bounds                                            *)
(***************************************************************************)
maxRecursionDepth == 10
TTL == 60000
MAX_SIZE == 1000
\* the period of the cleanup timer, in milliseconds
SweepPeriod == 300000

\* recursion deeper than this is reported as divergence (a call that the
\* depth bound failed to stop); resolveModuleOutput passes depth + 1 on
\* without a test of its own, so a bounded call tree reaches depth
\* maxRecursionDepth + 2
HardDepth == 12
\* top-level operations per behaviour
MaxOps == 2
\* the clock advances in steps of TickStep up to MaxNow
TickStep == 60001
MaxNow == 60001
\* number of links of the reference chain a0 -> a1 -> ... in the chain tree
ChainLen == 12

(***************************************************************************)
(* Text                                                                    *)
(***************************************************************************)
StartsWith(s, p) == Len(p) <= Len(s) /\ SubSeq(s, 1, Len(p)) = p

Includes(s, p) == \E i \in 0..(Len(s) - Len(p)) : SubSeq(s, i + 1, i + Len(p)) = p

(***************************************************************************)
(* Paths                                                                   *)
(***************************************************************************)
RECURSIVE PathStr(_)
PathStr(d) ==
    IF d = <<>> THEN <<"/">>
    ELSE IF Len(d) = 1 THEN <<"/">> \o d[1]
    ELSE PathStr(SubSeq(d, 1, Len(d) - 1)) \o <<"/">> \o d[Len(d)]

Dirname(d) == IF d = <<>> THEN <<>> ELSE SubSeq(d, 1, Len(d) - 1)

RECURSIVE PathResolve(_, _)
PathResolve(d, comps) ==
    IF comps = <<>> THEN d
    ELSE IF Head(comps) = <<".">> THEN PathResolve(d, Tail(comps))
    ELSE IF Head(comps) = <<"..">> THEN PathResolve(Dirname(d), Tail(comps))
    ELSE PathResolve(Append(d, Head(comps)), Tail(comps))

WorkspaceRoot == << <<"w">> >>
DirP == << <<"w">>, <<"p">> >>
DirC == << <<"w">>, <<"p">>, <<"c">> >>
DirQ == << <<"w">>, <<"q">> >>
DirMissing == << <<"w">>, <<"d", "e", "v">> >>
\* a sibling of the workspace root whose name starts with the name of the
\* root, and another directory next to the root
DirSibling == << <<"w", "2">> >>
DirFar == << <<"o">> >>

\* the file system root, the parent of the workspace root
DirOutside == <<>>

IsWithinWorkspaceOff(dirPath) == FALSE

IsWithinWorkspaceAll(dirPath) == TRUE

IsWithinWorkspace(dirPath) == StartsWith(PathStr(dirPath), PathStr(WorkspaceRoot))

(***************************************************************************)
(* Tokens, names and values                                                *)
(***************************************************************************)
Lit(s) == [k |-> "lit", a |-> s, b |-> ""]
Id(s) == [k |-> "id", a |-> s, b |-> ""]
VarRef(s) == [k |-> "var", a |-> s, b |-> ""]
LocalRef(s) == [k |-> "local", a |-> s, b |-> ""]
ModRef(m, o) == [k |-> "module", a |-> m, b |-> o]
Junk(s) == [k |-> "junk", a |-> s, b |-> ""]

IsRef(t) == t.k \in {"var", "local", "module"}

NameStr(n) ==
    CASE n.k = "id" -> <<n.a>>
      [] n.k = "lit" -> <<n.a>>
      [] n.k = "junk" -> <<n.a, " ">>
      [] n.k = "module" -> IF n.b = "" THEN <<"module", ".", n.a>>
                           ELSE <<"module", ".", n.a, ".", n.b>>
      [] OTHER -> <<n.k, ".", n.a>>

HasRef(v) == \E i \in 1..Len(v) : IsRef(v[i])

\* results: a value, null, or a thrown error
\* together with the world the operation leaves behind
Val(v, w) == [st |-> "val", v |-> v, w |-> w]
Null(w) == [st |-> "null", v |-> <<>>, w |-> w]
Throw(w) == [st |-> "throw", v |-> <<>>, w |-> w]

NoMap == [x \in {} |-> <<>>]

(***************************************************************************)
(* TerraformCache: entries in insertion order (a JavaScript Map)           *)
(***************************************************************************)
KeyIndex(c, key) ==
    IF \E i \in 1..Len(c) : c[i].key = key
    THEN CHOOSE i \in 1..Len(c) : c[i].key = key
    ELSE 0

RemoveAt(c, i) == SubSeq(c, 1, i - 1) \o SubSeq(c, i + 1, Len(c))

ExpiredSinceLastAccess(entry, t) == t - entry.lastAccessed > TTL

Expired(entry, t) == t - entry.timestamp > TTL

\* get: [hit, value, c], c the entries after the read
CacheGet(c, key, t) ==
    LET i == KeyIndex(c, key) IN
    IF i = 0 THEN [hit |-> FALSE, value |-> <<>>, c |-> c]
    ELSE IF Expired(c[i], t) THEN [hit |-> FALSE, value |-> <<>>, c |-> RemoveAt(c, i)]
    ELSE [hit |-> TRUE, value |-> c[i].value,
          c |-> [c EXCEPT ![i].accessCount = @ + 1, ![i].lastAccessed = t]]

LruIndexFirst(c, t) == IF c = <<>> THEN 0 ELSE 1

\* first entry, in iteration order, with the least lastAccessed below t
LruIndex(c, t) ==
    LET cand == {i \in 1..Len(c) : c[i].lastAccessed < t} IN
    IF cand = {} THEN 0
    ELSE CHOOSE i \in cand :
            \A j \in cand : \/ c[i].lastAccessed < c[j].lastAccessed
                            \/ (c[i].lastAccessed = c[j].lastAccessed /\ i <= j)

EvictLeastRecentlyUsed(c, t) ==
    LET i == LruIndex(c, t) IN IF i = 0 THEN c ELSE RemoveAt(c, i)

CacheSet(c, key, value, t) ==
    LET c1 == IF Len(c) >= MAX_SIZE THEN EvictLeastRecentlyUsed(c, t) ELSE c
        e == [key |-> key, value |-> value, timestamp |-> t,
              accessCount |-> 1, lastAccessed |-> t]
        i == KeyIndex(c1, key)
    IN IF i = 0 THEN Append(c1, e) ELSE [c1 EXCEPT ![i] = e]

InvalidateFileOff(c, filePath) == c

InvalidateFile(c, filePath) ==
    LET Kept(entry) == ~Includes(entry.key, filePath) IN SelectSeq(c, Kept)

CacheClear(c) == <<>>

\* the periodic sweep
Cleanup(c, t) ==
    LET Kept(entry) == ~Expired(entry, t) IN SelectSeq(c, Kept)

\* the world an operation runs in: the caches, the clock, the visited set of
\* the running resolution, the files read and the divergence flag
WGet(w, key) ==
    LET g == CacheGet(w.cache, key, w.now) IN
    [st |-> IF g.hit THEN "val" ELSE "null", v |-> g.value, w |-> [w EXCEPT !.cache = g.c]]

WSet(w, key, value) == [w EXCEPT !.cache = CacheSet(w.cache, key, value, w.now)]

(***************************************************************************)
(* File accessor: fs.dirs maps each existing directory to its listing.     *)
(* A file is [name, ext, readable, assigns, locals, outputs, modules]; a   *)
(* module block is [name, source, variables], a source [kind, comps].      *)
(***************************************************************************)
DirectoryExists(d) == d \in DOMAIN fs.dirs

ReadDir(d, w) == IF fs.dirs[d].listable THEN Val(fs.dirs[d].files, w) ELSE Throw(w)

FilePath(d, f) == PathStr(d) \o <<"/">> \o f.name

ReadFile(d, f, w) ==
    IF f.readable THEN Val(f, [w EXCEPT !.reads = @ \cup {FilePath(d, f)}])
    ELSE Throw(w)

\* a catch clause that returns null: the status of a try block as its
\* caller sees it
CaughtOff(st) == st

Caught(st) == IF st = "throw" THEN "null" ELSE st

Catch(x) == [x EXCEPT !.st = Caught(@)]

Found(v) == [st |-> "val", v |-> v]
NotFound == [st |-> "null", v |-> <<>>]

(***************************************************************************)
(* TerraformParser, on parsed files                                        *)
(***************************************************************************)
ParseHclVariable(assigns, name) ==
    IF name.k = "id" /\ name.a \in DOMAIN assigns THEN Found(assigns[name.a]) ELSE NotFound

ParseJsonVariable(assigns, name) ==
    IF name.k = "id" /\ name.a \in DOMAIN assigns THEN Found(assigns[name.a]) ELSE NotFound

ParseLocalsBlock(f, name) == ParseHclVariable(f.locals, name)

ParseOutputBlock(f, name) ==
    IF name.k = "id" /\ name.a \in DOMAIN f.outputs THEN Found(f.outputs[name.a]) ELSE NotFound

NoSource == [kind |-> "none", comps |-> <<>>]

ParseModuleBlock(f, moduleName) ==
    LET idx == {i \in 1..Len(f.modules) : f.modules[i].name = moduleName} IN
    IF idx = {} THEN NotFound
    ELSE LET m == f.modules[CHOOSE i \in idx : \A j \in idx : i <= j] IN
         IF m.source = NoSource THEN NotFound ELSE Found(m)

\* var references first, then local, then module, each in order of
\* occurrence, without duplicates
RECURSIVE RefsOfKind(_, _, _)
RefsOfKind(v, kind, acc) ==
    IF v = <<>> THEN acc
    ELSE IF Head(v).k = kind /\ ~(\E i \in 1..Len(acc) : acc[i] = Head(v))
         THEN RefsOfKind(Tail(v), kind, Append(acc, Head(v)))
         ELSE RefsOfKind(Tail(v), kind, acc)

ExtractVariableReferences(v) ==
    RefsOfKind(v, "var", <<>>) \o RefsOfKind(v, "local", <<>>) \o RefsOfKind(v, "module", <<>>)

\* global whole-word replacement of one reference by a text
RECURSIVE ReplaceRef(_, _, _)
ReplaceRef(v, ref, by) ==
    IF v = <<>> THEN <<>>
    ELSE (IF Head(v) = ref THEN by ELSE <<Head(v)>>) \o ReplaceRef(Tail(v), ref, by)

\* trims; token values carry no surrounding blanks
PreserveComplexStructure(v) == v

(***************************************************************************)
(* Cache keys                                                              *)
(***************************************************************************)
FindKeyNoDir(kind, name, dir) == <<kind, ":">> \o NameStr(name)

FindKey(kind, name, dir) == <<kind, ":">> \o NameStr(name) \o <<":">> \o PathStr(dir)

ResolveKey(name, dir, depth) ==
    <<"resolve", ":">> \o NameStr(name) \o <<":">> \o PathStr(dir) \o <<":", ToString(depth)>>

EnhancedKeyNoDir(name, dir, depth, moduleContext) ==
    <<"enhanced", ":">> \o NameStr(name) \o <<":", ToString(depth), ":">> \o moduleContext

EnhancedKey(name, dir, depth, moduleContext) ==
    <<"enhanced", ":">> \o NameStr(name) \o <<":">> \o PathStr(dir)
        \o <<":", ToString(depth), ":">> \o moduleContext

\* the hint provider's resolveVariableWithCache
ProviderKey(type, name, dir) == <<type, ":">> \o NameStr(name) \o <<":">> \o PathStr(dir)

VisitKey(name, dir, depth) == PathStr(dir) \o <<":">> \o NameStr(name) \o <<":", ToString(depth)>>

(***************************************************************************)
(* findInTfvarsFiles, findInLocals, findInOutputs                          *)
(***************************************************************************)
FileMatches(kind, f) ==
    IF kind = "tfvars" THEN f.ext \in {"tfvars", "tfvars.json"} ELSE f.ext = "tf"

ParseFor(kind, f, name) ==
    CASE kind = "tfvars" -> IF f.ext = "tfvars.json" THEN ParseJsonVariable(f.assigns, name)
                            ELSE ParseHclVariable(f.assigns, name)
      [] kind = "locals" -> ParseLocalsBlock(f, name)
      [] kind = "outputs" -> ParseOutputBlock(f, name)

\* cache.set(cacheKey, value); return value
Stored(key, value, w) == Val(value, WSet(w, key, value))

ParsedNullStored(kind, key, value, w) == Stored(key, value.v, w)

\* the per-file try block after the parse; w is the world after the read
Parsed(kind, key, value, w) ==
    IF value.st = "val"
    THEN Stored(key, IF kind = "tfvars" THEN PreserveComplexStructure(value.v) ELSE value.v, w)
    ELSE Null(w)

\* the per-file try block after readFile gave rd
AfterRead(kind, name, f, key, rd) ==
    IF rd.st = "throw" THEN rd ELSE Parsed(kind, key, ParseFor(kind, f, name), rd.w)

\* the body of the per-file try block
TryFile(kind, name, dir, f, key, w) == AfterRead(kind, name, f, key, ReadFile(dir, f, w))

\* the for loop over the files; a is what the try / catch of files[i] gave
RECURSIVE ScanFiles(_, _, _, _, _, _, _)
Scanned(kind, name, dir, files, i, key, a) ==
    IF a.st = "null" THEN ScanFiles(kind, name, dir, files, i + 1, key, a.w) ELSE a

ScanFiles(kind, name, dir, files, i, key, w) ==
    IF i > Len(files) THEN Null(w)
    ELSE IF ~FileMatches(kind, files[i]) THEN ScanFiles(kind, name, dir, files, i + 1, key, w)
    ELSE Scanned(kind, name, dir, files, i, key,
                 Catch(TryFile(kind, name, dir, files[i], key, w)))

\* files is what readDirectory gave
ScanListed(kind, name, dir, key, files, w) ==
    IF files.st = "throw" THEN files ELSE ScanFiles(kind, name, dir, files.v, 1, key, w)

\* g is what cache.get(cacheKey) gave
AfterFindGet(kind, name, dir, key, g) ==
    IF g.st = "val" THEN g
    ELSE IF ~DirectoryExists(dir) THEN Null(g.w)
    ELSE ScanListed(kind, name, dir, key, ReadDir(dir, g.w), g.w)

FindKeyed(kind, name, dir, key, w) == AfterFindGet(kind, name, dir, key, WGet(w, key))

FindInBody(kind, name, dir, w) == FindKeyed(kind, name, dir, FindKey(kind, name, dir), w)

FindInTfvarsFiles(name, dir, w) == Catch(FindInBody("tfvars", name, dir, w))

FindInLocals(name, dir, w) == Catch(FindInBody("locals", name, dir, w))

FindInOutputs(name, dir, w) == Catch(FindInBody("outputs", name, dir, w))

(***************************************************************************)
(* Module calls and module paths                                           *)
(***************************************************************************)
ModulePathKey(source, currentDir) == <<source, currentDir>>

ResolveModulePathBodyForgetful(source, currentDir, w) ==
    LET key == ModulePathKey(source, currentDir) IN
    IF key \in DOMAIN w.mp THEN Val(w.mp[key], w)
    ELSE IF source.kind = "registry" THEN Null(w)
    ELSE LET candidatePath == IF source.kind = "abs"
                              THEN PathResolve(WorkspaceRoot, source.comps)
                              ELSE PathResolve(currentDir, source.comps)
         IN IF DirectoryExists(candidatePath) /\ IsWithinWorkspace(candidatePath)
            THEN Val(candidatePath, [w EXCEPT !.mp = (key :> candidatePath)])
            ELSE Null(w)

ResolveModulePathBody(source, currentDir, w) ==
    LET key == ModulePathKey(source, currentDir) IN
    IF key \in DOMAIN w.mp THEN Val(w.mp[key], w)
    ELSE IF source.kind = "registry" THEN Null(w)
    ELSE LET candidatePath == IF source.kind = "abs"
                              THEN PathResolve(WorkspaceRoot, source.comps)
                              ELSE PathResolve(currentDir, source.comps)
         IN IF DirectoryExists(candidatePath) /\ IsWithinWorkspace(candidatePath)
            THEN Val(candidatePath, [w EXCEPT !.mp = (key :> candidatePath) @@ w.mp])
            ELSE Null(w)

ResolveModulePath(source, currentDir, w) ==
    Catch(ResolveModulePathBody(source, currentDir, w))

\* the per-file try block of findModuleCall after the parse
ParsedModule(key, moduleCall, w) ==
    IF moduleCall.st = "val" THEN Stored(key, moduleCall.v, w) ELSE Null(w)

AfterModuleRead(moduleName, f, key, rd) ==
    IF rd.st = "throw" THEN rd ELSE ParsedModule(key, ParseModuleBlock(f, moduleName), rd.w)

TryModuleFile(moduleName, dir, f, key, w) ==
    AfterModuleRead(moduleName, f, key, ReadFile(dir, f, w))

RECURSIVE ScanModuleFiles(_, _, _, _, _, _)
ScannedModule(moduleName, dir, files, i, key, a) ==
    IF a.st = "null" THEN ScanModuleFiles(moduleName, dir, files, i + 1, key, a.w) ELSE a

ScanModuleFiles(moduleName, dir, files, i, key, w) ==
    IF i > Len(files) THEN Null(w)
    ELSE IF files[i].ext # "tf" THEN ScanModuleFiles(moduleName, dir, files, i + 1, key, w)
    ELSE ScannedModule(moduleName, dir, files, i, key,
                       Catch(TryModuleFile(moduleName, dir, files[i], key, w)))

ScanModuleListed(moduleName, dir, key, files, w) ==
    IF files.st = "throw" THEN files ELSE ScanModuleFiles(moduleName, dir, files.v, 1, key, w)

AfterModuleGet(moduleName, dir, key, g) ==
    IF g.st = "val" THEN g
    ELSE IF ~DirectoryExists(dir) THEN Null(g.w)
    ELSE ScanModuleListed(moduleName, dir, key, ReadDir(dir, g.w), g.w)

FindModuleKeyed(moduleName, dir, key, w) == AfterModuleGet(moduleName, dir, key, WGet(w, key))

FindModuleCallBody(moduleName, dir, w) ==
    FindModuleKeyed(moduleName, dir, FindKey("module", Id(moduleName), dir), w)

FindModuleCall(moduleName, dir, w) == Catch(FindModuleCallBody(moduleName, dir, w))

SourceTargetsParent(resolvedSource, targetDir) ==
    resolvedSource.st = "val" /\ resolvedSource.v = Dirname(targetDir)

SourceTargets(resolvedSource, targetDir) ==
    resolvedSource.st = "val" /\ resolvedSource.v = targetDir

\* the while loop over the module blocks of one file; acc is moduleCalls,
\* resolvedSource what resolveModulePath gave for the source of mods[j]
RECURSIVE ScanModuleBlocks(_, _, _, _, _, _)
BlockScanned(mods, j, searchDir, targetDir, acc, resolvedSource) ==
    ScanModuleBlocks(mods, j + 1, searchDir, targetDir,
                     IF SourceTargets(resolvedSource, targetDir)
                     THEN Append(acc, mods[j]) ELSE acc,
                     resolvedSource.w)

ScanModuleBlocks(mods, j, searchDir, targetDir, acc, w) ==
    IF j > Len(mods) THEN [acc |-> acc, w |-> w]
    ELSE IF mods[j].source = NoSource
         THEN ScanModuleBlocks(mods, j + 1, searchDir, targetDir, acc, w)
    ELSE BlockScanned(mods, j, searchDir, targetDir, acc,
                      ResolveModulePath(mods[j].source, searchDir, w))

\* the for loop over the .tf files; a failed read leaves the loop through
\* the catch clause of the function with the calls collected so far
RECURSIVE ScanCallFiles(_, _, _, _, _, _)
CallFileScanned(files, i, searchDir, targetDir, b) ==
    ScanCallFiles(files, i + 1, searchDir, targetDir, b.acc, b.w)

CallFileRead(files, i, searchDir, targetDir, acc, rd) ==
    IF rd.st = "throw" THEN [acc |-> acc, w |-> rd.w]
    ELSE CallFileScanned(files, i, searchDir, targetDir,
             ScanModuleBlocks(files[i].modules, 1, searchDir, targetDir, acc, rd.w))

ScanCallFiles(files, i, searchDir, targetDir, acc, w) ==
    IF i > Len(files) THEN [acc |-> acc, w |-> w]
    ELSE IF files[i].ext # "tf" THEN ScanCallFiles(files, i + 1, searchDir, targetDir, acc, w)
    ELSE CallFileRead(files, i, searchDir, targetDir, acc, ReadFile(searchDir, files[i], w))

ScanCallListed(searchDir, targetDir, files, w) ==
    IF files.st = "throw" THEN [acc |-> <<>>, w |-> w]
    ELSE ScanCallFiles(files.v, 1, searchDir, targetDir, <<>>, w)

FindModuleCallsToDirectory(searchDir, targetDir, w) ==
    IF ~DirectoryExists(searchDir) THEN [acc |-> <<>>, w |-> w]
    ELSE ScanCallListed(searchDir, targetDir, ReadDir(searchDir, w), w)

(***************************************************************************)
(* TerraformVariableResolver: the recursive resolution.                    *)
(* The helpers between two resolveVariableValue(Enhanced) calls run no     *)
(* I/O of their own and call only functions that catch their errors, so    *)
(* their catch clauses are never entered; they hand a thrown error on      *)
(* unchanged.                                                              *)
(***************************************************************************)
RECURSIVE ResolveVariableValue(_, _, _, _)
RECURSIVE ResolveVariableValueEnhanced(_, _, _, _, _)
RECURSIVE ResolveModuleOutput(_, _, _, _)
RECURSIVE ResolveReferencesInValue(_, _, _, _)
RECURSIVE ResolveNestedReferences(_, _, _, _)
RECURSIVE ResolveVariableReference(_, _, _, _)
RECURSIVE ResolveAsModuleInput(_, _, _, _)
RECURSIVE FindVariableInParentModule(_, _, _, _, _)

DepthExceededOff(depth) == FALSE

DepthExceeded(depth) == depth > maxRecursionDepth

\* a call deeper than HardDepth is one the depth bound did not stop
Diverged(depth) == depth > HardDepth

\* resolution order in one directory: tfvars -> locals -> outputs
LookupOrderLocalsFirst == <<"locals", "tfvars", "outputs">>

LookupOrder == <<"tfvars", "locals", "outputs">>

FindBy(kind, name, dir, w) ==
    CASE kind = "tfvars" -> FindInTfvarsFiles(name, dir, w)
      [] kind = "locals" -> FindInLocals(name, dir, w)
      [] kind = "outputs" -> FindInOutputs(name, dir, w)

\* h is what the find function of order[i] gave
RECURSIVE FirstHit(_, _, _, _, _)
NextHit(order, i, name, dir, h) ==
    IF h.st = "null" THEN FirstHit(order, i + 1, name, dir, h.w) ELSE h

FirstHit(order, i, name, dir, w) ==
    IF i > Len(order) THEN Null(w)
    ELSE NextHit(order, i, name, dir, FindBy(order[i], name, dir, w))

Enter(w, visitKey) == [w EXCEPT !.visited = @ \cup {visitKey}]

\* a call for (name, dir) is on the call stack: between its visited.add and
\* its visited.delete
OnStack(w, name, dir) == \E d \in 0..HardDepth : VisitKey(name, dir, d) \in w.visited

\* the depths of the calls on the call stack
ActiveDepths(w) ==
    {d \in 0..HardDepth : \E key \in w.visited : key[Len(key)] = ToString(d)}

\* a call goes past the depth test and the visited test: reentered records
\* its context when a call for it is on the stack, faults records a depth
\* that is not above the depth of every call on the stack and a depth
\* above the bound
Entering(w, name, dir, depth) ==
    [w EXCEPT !.reentered = IF OnStack(w, name, dir) THEN @ \cup {<<name, dir>>} ELSE @,
              !.faults = @ \cup (IF \E d \in ActiveDepths(w) : d >= depth
                                 THEN {"not deeper"} ELSE {})
                           \cup (IF depth > maxRecursionDepth
                                 THEN {"beyond bound"} ELSE {})]

\* the search moves from currentDir on to its parent directory
ToParent(w, currentDir) == [w EXCEPT !.parents = @ \cup {<<currentDir, Dirname(currentDir)>>}]

\* every return of a value from the try block is preceded by
\* cache.set(cacheKey, value); the finally clause deletes visitKey
LeaveKeeping(x, key, visitKey) ==
    IF x.st = "val" THEN WSet(x.w, key, x.v) ELSE x.w

Leave(x, key, visitKey) ==
    [(IF x.st = "val" THEN WSet(x.w, key, x.v) ELSE x.w) EXCEPT !.visited = @ \ {visitKey}]

\* what the caller gets from the try / catch / finally around the result x
\* of the try block
Return(x, key, visitKey) == [x EXCEPT !.st = Caught(@), !.w = Leave(x, key, visitKey)]

ParentSearchFromRoot(name, dir, depth, w) ==
    IF Dirname(dir) # dir /\ IsWithinWorkspace(Dirname(dir))
    THEN ResolveVariableValue(name, WorkspaceRoot, depth + 1, ToParent(w, dir))
    ELSE Null(w)

ParentSearchSameDepth(name, dir, depth, w) ==
    IF Dirname(dir) # dir /\ IsWithinWorkspace(Dirname(dir))
    THEN ResolveVariableValue(name, Dirname(dir), depth, ToParent(w, dir))
    ELSE Null(w)

\* resolveVariableValue: the parent-directory step
ParentSearch(name, dir, depth, w) ==
    IF Dirname(dir) # dir /\ IsWithinWorkspace(Dirname(dir))
    THEN ResolveVariableValue(name, Dirname(dir), depth + 1, ToParent(w, dir))
    ELSE Null(w)

\* resolveVariableValue: after the module-output step gave mo
AfterModuleOutput(name, dir, depth, mo) ==
    IF mo.st # "null" THEN mo ELSE ParentSearch(name, dir, depth, mo.w)

\* resolveVariableValue: after tfvars -> locals -> outputs gave h
AfterLookup(name, dir, depth, h) ==
    IF h.st # "null" THEN h
    ELSE AfterModuleOutput(name, dir, depth,
             IF name.k = "module" THEN ResolveModuleOutput(name, dir, depth + 1, h.w)
             ELSE Null(h.w))

ResolveVariableValue(name, dir, depth, w) ==
    LET key == ResolveKey(name, dir, depth)
        g == WGet(w, key)
        visitKey == VisitKey(name, dir, depth)
    IN CASE Diverged(depth) -> Null([w EXCEPT !.div = TRUE])
         [] DepthExceeded(depth) -> Null(w)
         [] g.st = "val" -> g
         [] visitKey \in g.w.visited -> Null(g.w)
         [] OTHER -> Return(AfterLookup(name, dir, depth,
                                        FirstHit(LookupOrder, 1, name, dir,
                                                 Enter(Entering(g.w, name, dir, depth), visitKey))),
                            key, visitKey)

\* resolveModuleOutput: after findInOutputs in the module's directory
OutputInModule(modulePath, depth, outputValue) ==
    IF outputValue.st # "val" THEN outputValue
    ELSE ResolveReferencesInValue(outputValue.v, modulePath.v, depth + 1, outputValue.w)

\* resolveModuleOutput: after resolveModulePath
OutputAtPath(outputName, depth, modulePath) ==
    IF modulePath.st # "val" THEN modulePath
    ELSE OutputInModule(modulePath, depth,
                        FindInOutputs(Id(outputName), modulePath.v, modulePath.w))

\* resolveModuleOutput: after findModuleCall
OutputOfCall(outputName, currentDir, depth, moduleCall) ==
    IF moduleCall.st # "val" THEN moduleCall
    ELSE OutputAtPath(outputName, depth,
                      ResolveModulePath(moduleCall.v.source, currentDir, moduleCall.w))

ResolveModuleOutput(variableRef, currentDir, depth, w) ==
    IF variableRef.k # "module" \/ variableRef.b = "" THEN Null(w)
    ELSE OutputOfCall(variableRef.b, currentDir, depth,
                      FindModuleCall(variableRef.a, currentDir, w))

\* the for loop of resolveReferencesInValue; resolvedRef is what
\* resolveVariableValue gave for varRefs[i]
RECURSIVE SubstituteResolved(_, _, _, _, _, _)
ResolvedSubstituted(varRefs, i, resolvedValue, contextDir, depth, resolvedRef) ==
    IF resolvedRef.st = "throw" THEN resolvedRef
    ELSE SubstituteResolved(varRefs, i + 1,
             IF resolvedRef.st = "val"
             THEN ReplaceRef(resolvedValue, varRefs[i], resolvedRef.v)
             ELSE resolvedValue,
             contextDir, depth, resolvedRef.w)

SubstituteResolved(varRefs, i, resolvedValue, contextDir, depth, w) ==
    IF i > Len(varRefs) THEN Val(resolvedValue, w)
    ELSE ResolvedSubstituted(varRefs, i, resolvedValue, contextDir, depth,
                             ResolveVariableValue(varRefs[i], contextDir, depth, w))

ResolveReferencesInValue(value, contextDir, depth, w) ==
    IF value = <<>> THEN Val(value, w)
    ELSE SubstituteResolved(ExtractVariableReferences(value), 1, value, contextDir, depth, w)

\* the text after the prefix of a reference expression, as a name
RefName(reference) ==
    IF Len(reference) = 1 THEN Id(reference[1].a) ELSE Junk(reference[1].a)

RefModule(reference) ==
    IF Len(reference) = 1 THEN reference[1] ELSE ModRef(reference[1].a, " ")

ResolveVariableReference(reference, contextDir, depth, w) ==
    CASE reference = <<>> -> Val(reference, w)
      [] reference[1].k = "var" ->
            ResolveVariableValueEnhanced(RefName(reference), contextDir, depth, <<>>, w)
      [] reference[1].k = "local" -> FindInLocals(RefName(reference), contextDir, w)
      [] reference[1].k = "module" ->
            ResolveModuleOutput(RefModule(reference), contextDir, depth, w)
      [] OTHER -> Val(reference, w)

\* the for loop of resolveNestedReferences; resolved is what
\* resolveVariableReference gave for varRefs[i]
RECURSIVE SubstituteNested(_, _, _, _, _, _)
NestedSubstituted(varRefs, i, resolvedValue, contextDir, depth, resolved) ==
    IF resolved.st = "throw" THEN resolved
    ELSE SubstituteNested(varRefs, i + 1,
             IF resolved.st = "val" /\ resolved.v # <<varRefs[i]>>
             THEN ReplaceRef(resolvedValue, varRefs[i], resolved.v)
             ELSE resolvedValue,
             contextDir, depth, resolved.w)

SubstituteNested(varRefs, i, resolvedValue, contextDir, depth, w) ==
    IF i > Len(varRefs) THEN Val(resolvedValue, w)
    ELSE NestedSubstituted(varRefs, i, resolvedValue, contextDir, depth,
                           ResolveVariableReference(<<varRefs[i]>>, contextDir, depth, w))

ResolveNestedReferences(value, contextDir, depth, w) ==
    IF value = <<>> THEN Val(value, w)
    ELSE SubstituteNested(ExtractVariableReferences(value), 1, value, contextDir, depth, w)

\* the for loop over the module calls that pass the variable; resolvedRef
\* is what resolveVariableReference gave for the argument of moduleCalls[i]
RECURSIVE ResolveFromCalls(_, _, _, _, _, _)
ResolvedFromCall(moduleCalls, i, variableName, parentDir, depth, resolvedRef) ==
    IF resolvedRef.st = "null"
    THEN ResolveFromCalls(moduleCalls, i + 1, variableName, parentDir, depth, resolvedRef.w)
    ELSE resolvedRef

ResolveFromCalls(moduleCalls, i, variableName, parentDir, depth, w) ==
    IF i > Len(moduleCalls) THEN Null(w)
    ELSE IF /\ variableName.k = "id"
            /\ variableName.a \in DOMAIN moduleCalls[i].variables
            /\ moduleCalls[i].variables[variableName.a] # <<>>
         THEN ResolvedFromCall(moduleCalls, i, variableName, parentDir, depth,
                  ResolveVariableReference(moduleCalls[i].variables[variableName.a],
                                           parentDir, depth, w))
         ELSE ResolveFromCalls(moduleCalls, i + 1, variableName, parentDir, depth, w)

\* moduleCalls is what findModuleCallsToDirectory gave
ResolveFromCallsFound(variableName, parentDir, depth, moduleCalls) ==
    ResolveFromCalls(moduleCalls.acc, 1, variableName, parentDir, depth, moduleCalls.w)

ResolveAsModuleInput(variableName, moduleDir, depth, w) ==
    IF ~IsWithinWorkspace(Dirname(moduleDir)) THEN Null(w)
    ELSE ResolveFromCallsFound(variableName, Dirname(moduleDir), depth,
             FindModuleCallsToDirectory(Dirname(moduleDir), moduleDir, w))

FindVariableInParentModule(variableName, currentDir, parentDir, depth, w) ==
    ResolveFromCallsFound(variableName, parentDir, depth,
                          FindModuleCallsToDirectory(parentDir, currentDir, w))

\* resolveVariableValueEnhanced, step 4: after findVariableInParentModule
AfterParentModule(name, parentDir, depth, moduleContext, parentModuleValue) ==
    IF parentModuleValue.st # "null" THEN parentModuleValue
    ELSE ResolveVariableValueEnhanced(name, parentDir, depth + 1, moduleContext,
                                      parentModuleValue.w)

\* resolveVariableValueEnhanced, step 4: the parent directory
EnhancedParentSearch(name, dir, depth, moduleContext, w) ==
    IF Dirname(dir) # dir /\ IsWithinWorkspace(Dirname(dir))
    THEN AfterParentModule(name, Dirname(dir), depth, moduleContext,
             FindVariableInParentModule(name, dir, Dirname(dir), depth + 1,
                                        ToParent(w, dir)))
    ELSE Null(w)

\* resolveVariableValueEnhanced, step 3: after the module-output step
AfterEnhancedModuleOutput(name, dir, depth, moduleContext, mo) ==
    CASE mo.st = "val" -> ResolveNestedReferences(mo.v, dir, depth + 1, mo.w)
      [] mo.st = "throw" -> mo
      [] OTHER -> EnhancedParentSearch(name, dir, depth, moduleContext, mo.w)

\* resolveVariableValueEnhanced, step 2: after resolveAsModuleInput
AfterModuleInput(name, dir, depth, moduleContext, moduleVariable) ==
    IF moduleVariable.st # "null" THEN moduleVariable
    ELSE AfterEnhancedModuleOutput(name, dir, depth, moduleContext,
             IF name.k = "module"
             THEN ResolveModuleOutput(name, dir, depth + 1, moduleVariable.w)
             ELSE Null(moduleVariable.w))

InputFirst(name, dir, depth, moduleContext, h, moduleVariable) ==
    CASE moduleVariable.st = "val" -> moduleVariable
      [] h.st = "val" -> ResolveNestedReferences(h.v, dir, depth + 1, moduleVariable.w)
      [] OTHER -> AfterModuleInput(name, dir, depth, moduleContext, moduleVariable)

AfterEnhancedLookupInputFirst(name, dir, depth, moduleContext, h) ==
    IF h.st = "throw" THEN h
    ELSE InputFirst(name, dir, depth, moduleContext, h,
                    ResolveAsModuleInput(name, dir, depth + 1, h.w))

\* resolveVariableValueEnhanced, step 1: after tfvars -> locals -> outputs
AfterEnhancedLookup(name, dir, depth, moduleContext, h) ==
    CASE h.st = "val" -> ResolveNestedReferences(h.v, dir, depth + 1, h.w)
      [] h.st = "throw" -> h
      [] OTHER -> AfterModuleInput(name, dir, depth, moduleContext,
                      IF moduleContext = <<>>
                      THEN ResolveAsModuleInput(name, dir, depth + 1, h.w)
                      ELSE Null(h.w))

ResolveVariableValueEnhanced(name, dir, depth, moduleContext, w) ==
    LET key == EnhancedKey(name, dir, depth, moduleContext)
        g == WGet(w, key)
        visitKey == VisitKey(name, dir, depth)
    IN CASE Diverged(depth) -> Null([w EXCEPT !.div = TRUE])
         [] DepthExceeded(depth) -> Null(w)
         [] g.st = "val" -> g
         [] visitKey \in g.w.visited -> Null(g.w)
         [] OTHER -> Return(AfterEnhancedLookup(name, dir, depth, moduleContext,
                                                FirstHit(LookupOrder, 1, name, dir,
                                                         Enter(Entering(g.w, name, dir, depth), visitKey))),
                            key, visitKey)

\* the dispatch of resolveVariableInMultipleContexts; each resolution runs
\* with a visited set of its own, results are collected in input order
RECURSIVE ResolveEach(_, _, _, _, _)
Collected(variableName, searchDirectories, i, results, x) ==
    IF x.st = "throw" THEN [st |-> "throw", results |-> results, w |-> x.w]
    ELSE ResolveEach(variableName, searchDirectories, i + 1,
             IF x.st = "val" /\ x.v # <<>>
             THEN Append(results, [value |-> x.v, directory |-> searchDirectories[i]])
             ELSE results,
             x.w)

ResolveEach(variableName, searchDirectories, i, results, w) ==
    IF i > Len(searchDirectories) THEN [st |-> "val", results |-> results, w |-> w]
    ELSE Collected(variableName, searchDirectories, i, results,
                   Catch(ResolveVariableValue(variableName, searchDirectories[i], 0,
                                              [w EXCEPT !.visited = {}])))

ResolveVariableInMultipleContexts(variableName, searchDirectories, w) ==
    ResolveEach(variableName, searchDirectories, 1, <<>>, w)

(***************************************************************************)
(* Workspaces                                                              *)
(***************************************************************************)
TfvarsFile(base, assigns) ==
    [name |-> <<base, ".tfvars">>, ext |-> "tfvars", readable |-> TRUE,
     assigns |-> assigns, locals |-> NoMap, outputs |-> NoMap, modules |-> <<>>]

TfFile(base, locals, outputs, modules) ==
    [name |-> <<base, ".tf">>, ext |-> "tf", readable |-> TRUE,
     assigns |-> NoMap, locals |-> locals, outputs |-> outputs, modules |-> modules]

Unreadable(f) == [f EXCEPT !.readable = FALSE]

Listing(files) == [listable |-> TRUE, files |-> files]

RelSource(comps) == [kind |-> "rel", comps |-> comps]

ModuleBlock(name, source, variables) ==
    [name |-> name, source |-> source, variables |-> variables]

\* env: an override file and a locals declaration for region in the root,
\* a module call in p that threads size and tier into p/c, p/c giving
\* tier a value of its own, and an override file in the parent of the
\* workspace root
EnvTree ==
    [tag |-> "env",
     dirs |->
        (WorkspaceRoot :> Listing(<<
            TfFile("main", ("region" :> <<Lit("r-local")>>) @@ ("zone" :> <<Lit("z1")>>),
                   ("region" :> <<Lit("r-out")>>) @@ ("zone" :> <<Lit("z-out")>>)
                       @@ ("ep" :> <<Lit("http")>>),
                   <<>>),
            TfvarsFile("prod", ("region" :> <<Lit("us-east-1")>>)) >>))
        @@ (DirP :> Listing(<<
            TfFile("main", NoMap, NoMap,
                   <<ModuleBlock("app", RelSource(<< <<".">>, <<"c">> >>),
                                 ("size" :> <<VarRef("env_size")>>)
                                     @@ ("tier" :> <<Lit("gold")>>))>>),
            TfvarsFile("terraform", ("env_size" :> <<Lit("large")>>)
                                        @@ ("size" :> <<Lit("p-size")>>)) >>))
        @@ (DirC :> Listing(<<
            TfFile("main", NoMap, NoMap, <<>>),
            TfvarsFile("terraform", ("tier" :> <<Lit("c-tier")>>)) >>))
        @@ (DirOutside :> Listing(<<
            TfvarsFile("terraform", ("outer" :> <<Lit("leak")>>)) >>))]

\* cycle: var and local references that form a cycle, module calls whose
\* sources point at each other
CycleTree ==
    [tag |-> "cycle",
     dirs |->
        (WorkspaceRoot :> Listing(<<
            TfFile("main", ("a" :> <<LocalRef("b")>>) @@ ("b" :> <<LocalRef("a")>>),
                   NoMap, <<>>),
            TfvarsFile("terraform", ("x" :> <<VarRef("y")>>) @@ ("y" :> <<VarRef("x")>>)) >>))
        @@ (DirP :> Listing(<<
            TfFile("main", NoMap, ("o" :> <<ModRef("n", "o")>>),
                   <<ModuleBlock("n", RelSource(<< <<"..">>, <<"q">> >>), NoMap)>>) >>))
        @@ (DirQ :> Listing(<<
            TfFile("main", NoMap, ("o" :> <<ModRef("m", "o")>>),
                   <<ModuleBlock("m", RelSource(<< <<"..">>, <<"p">> >>), NoMap)>>) >>))]

ChainName(i) == "a" \o ToString(i)

ChainAssigns ==
    [n \in {ChainName(i) : i \in 0..ChainLen} |->
        LET i == CHOOSE j \in 0..ChainLen : ChainName(j) = n IN
        IF i = ChainLen THEN <<Lit("end")>> ELSE <<VarRef(ChainName(i + 1))>>]

\* chain: a0 -> a1 -> ... longer than the depth bound, the short chains
\* s0 -> s1 -> s2 and l0 -> l1 -> l2, a module output that refers on, and a
\* module output cidr = var.vpc with vpc set in the module's directory and
\* in the caller's
ChainTree ==
    [tag |-> "chain",
     dirs |->
        (WorkspaceRoot :> Listing(<<
            TfFile("main", ("l0" :> <<LocalRef("l1")>>) @@ ("l1" :> <<LocalRef("l2")>>)
                               @@ ("l2" :> <<Lit("l-end")>>),
                   NoMap,
                   <<ModuleBlock("net", RelSource(<< <<".">>, <<"q">> >>), NoMap)>>),
            TfvarsFile("terraform", ChainAssigns @@ ("s0" :> <<Lit("pre"), VarRef("s1")>>)
                                        @@ ("s1" :> <<VarRef("s2")>>)
                                        @@ ("s2" :> <<Lit("fin")>>)
                                        @@ ("vpc" :> <<Lit("w-vpc")>>)) >>))
        @@ (DirQ :> Listing(<<
            TfFile("main", NoMap, ("id" :> <<ModRef("sub", "id")>>)
                                      @@ ("cidr" :> <<VarRef("vpc")>>),
                   <<ModuleBlock("sub", RelSource(<< <<"..">>, <<"p">> >>), NoMap)>>),
            TfvarsFile("terraform", ("vpc" :> <<Lit("q-vpc")>>)) >>))
        @@ (DirP :> Listing(<<
            TfFile("main", NoMap, ("id" :> <<Lit("vpc-1")>>), <<>>) >>))]

\* io: an unreadable override file before a readable one, an unreadable
\* .tf file before a readable one that calls the module in q, and a
\* directory whose listing fails
IoTree ==
    [tag |-> "io",
     dirs |->
        (WorkspaceRoot :> Listing(<<
            Unreadable(TfvarsFile("broken", ("region" :> <<Lit("hidden")>>))),
            Unreadable(TfFile("locked", ("zone" :> <<Lit("z-locked")>>), NoMap,
                   <<ModuleBlock("app", RelSource(<< <<".">>, <<"p">> >>),
                                 ("zone" :> <<Lit("z-arg")>>))>>)),
            TfFile("main", ("zone" :> <<Lit("z1")>>), NoMap,
                   <<ModuleBlock("svc", RelSource(<< <<".">>, <<"q">> >>),
                                 ("port" :> <<Lit("8080")>>))>>),
            TfvarsFile("ok", ("region" :> <<Lit("eu-1")>>)) >>))
        @@ (DirQ :> Listing(<< TfFile("main", NoMap, NoMap, <<>>) >>))
        @@ (DirP :> [listable |-> FALSE,
                     files |-> << TfvarsFile("terraform", ("region" :> <<Lit("p-region")>>)) >>])]

\* near: env declared in the root, in p and in p/c, and lvl declared in
\* the root and in p, with no module call that passes either
NearTree ==
    [tag |-> "near",
     dirs |->
        (WorkspaceRoot :> Listing(<<
            TfFile("main", NoMap, ("env" :> <<Lit("w-out")>>), <<>>),
            TfvarsFile("terraform", ("env" :> <<Lit("w-env")>>)
                                        @@ ("lvl" :> <<Lit("w-lvl")>>)) >>))
        @@ (DirP :> Listing(<<
            TfFile("main", ("lvl" :> <<Lit("p-lvl")>>), NoMap, <<>>),
            TfvarsFile("terraform", ("env" :> <<Lit("p-env")>>)) >>))
        @@ (DirC :> Listing(<<
            TfvarsFile("terraform", ("env" :> <<Lit("c-env")>>)) >>))]

\* sibling: module calls in the root whose sources lead to p, to the
\* sibling /w2 of the root and to the directory /o
SiblingTree ==
    [tag |-> "sibling",
     dirs |->
        (WorkspaceRoot :> Listing(<<
            TfFile("main", NoMap, NoMap,
                   <<ModuleBlock("in", RelSource(<< <<".">>, <<"p">> >>), NoMap),
                     ModuleBlock("shared", RelSource(<< <<"..">>, <<"w", "2">> >>), NoMap),
                     ModuleBlock("far", RelSource(<< <<"..">>, <<"o">> >>), NoMap)>>),
            TfvarsFile("terraform", ("x" :> <<Lit("1")>>)) >>))
        @@ (DirP :> Listing(<< TfFile("main", NoMap, ("id" :> <<Lit("p-id")>>), <<>>) >>))
        @@ (DirSibling :> Listing(<< TfFile("main", NoMap, ("id" :> <<Lit("w2-id")>>), <<>>) >>))
        @@ (DirFar :> Listing(<< TfFile("main", NoMap, ("id" :> <<Lit("o-id")>>), <<>>) >>))]

Trees == {EnvTree, CycleTree, ChainTree, IoTree, NearTree}

\* the references a consumer asks for in each workspace
Queries(tag) ==
    CASE tag = "env" -> {<<Id("region"), WorkspaceRoot>>, <<Id("zone"), WorkspaceRoot>>,
                         <<Id("region"), DirP>>, <<Id("size"), DirP>>,
                         <<Id("size"), DirC>>, <<Id("outer"), DirC>>,
                         <<Id("tier"), DirC>>}
      [] tag = "cycle" -> {<<Id("a"), WorkspaceRoot>>, <<Id("x"), WorkspaceRoot>>,
                           <<ModRef("n", "o"), DirP>>}
      [] tag = "chain" -> {<<Id(ChainName(0)), WorkspaceRoot>>, <<Id("s0"), WorkspaceRoot>>,
                           <<Id("l0"), WorkspaceRoot>>, <<ModRef("net", "id"), WorkspaceRoot>>,
                           <<ModRef("net", "cidr"), WorkspaceRoot>>,
                           <<ModRef("net", "none"), WorkspaceRoot>>}
      [] tag = "io" -> {<<Id("region"), WorkspaceRoot>>, <<Id("region"), DirP>>,
                        <<Id("zone"), DirP>>, <<Id("port"), DirQ>>}
      [] tag = "near" -> {<<Id("env"), WorkspaceRoot>>, <<Id("env"), DirP>>,
                          <<Id("env"), DirC>>, <<Id("lvl"), DirC>>}
      [] tag = "sibling" -> {<<ModRef("in", "id"), WorkspaceRoot>>,
                             <<ModRef("shared", "id"), WorkspaceRoot>>,
                             <<ModRef("far", "id"), WorkspaceRoot>>,
                             <<Id("x"), WorkspaceRoot>>}

\* the override file of each workspace that is edited, and the name whose
\* value the edit changes
Watched(tag) ==
    CASE tag = "env" -> [dir |-> WorkspaceRoot, base |-> "prod", name |-> "region"]
      [] tag = "cycle" -> [dir |-> WorkspaceRoot, base |-> "terraform", name |-> "x"]
      [] tag = "chain" -> [dir |-> WorkspaceRoot, base |-> "terraform", name |-> "s2"]
      [] tag = "io" -> [dir |-> WorkspaceRoot, base |-> "ok", name |-> "region"]
      [] tag = "near" -> [dir |-> WorkspaceRoot, base |-> "terraform", name |-> "env"]
      [] tag = "sibling" -> [dir |-> WorkspaceRoot, base |-> "terraform", name |-> "x"]

\* the value the edit gives the name
ChangedValue == <<Lit("v2")>>

(***************************************************************************)
(* State machine                                                           *)
(***************************************************************************)
World == [cache |-> cache, mp |-> resolvedModulePaths, now |-> now,
          visited |-> {}, reads |-> {}, div |-> FALSE, parents |-> {},
          reentered |-> {}, faults |-> {}]

\* the same resolver with nothing cached
ColdWorld == [cache |-> <<>>, mp |-> NoMap, now |-> now,
              visited |-> {}, reads |-> {}, div |-> FALSE, parents |-> {},
          reentered |-> {}, faults |-> {}]

Outcome(out) == [st |-> out.st, v |-> out.v]

NoLast == [op |-> "init", name |-> Id(""), dir |-> <<>>, st |-> "null", v |-> <<>>,
           results |-> <<>>, reads |-> {}, div |-> FALSE, visited |-> {},
           parents |-> {}, reentered |-> {}, faults |-> {}, cold |-> [st |-> "null", v |-> <<>>]]

\* no resolveVariableInMultipleContexts call is in flight
NoCall == [name |-> Id(""), dirs |-> <<>>, slots |-> <<>>, done |-> <<>>]

Init ==
    /\ fs \in Trees
    /\ cache = <<>>
    /\ resolvedModulePaths = NoMap
    /\ now = 0
    /\ last = NoLast
    /\ stale = FALSE
    /\ ops = 0
    /\ inflight = NoCall
    /\ cleanupInterval = SweepPeriod

\* last records the call and its result, and in cold the result the same
\* call gives a resolver that has nothing cached
Finish(op, name, dir, out, coldOut) ==
    /\ cache' = out.w.cache
    /\ resolvedModulePaths' = out.w.mp
    /\ last' = [op |-> op, name |-> name, dir |-> dir, st |-> out.st, v |-> out.v,
                results |-> <<>>, reads |-> out.w.reads,
                div |-> out.w.div \/ coldOut.w.div,
                visited |-> out.w.visited, parents |-> out.w.parents,
                reentered |-> out.w.reentered, faults |-> out.w.faults,
                cold |-> Outcome(coldOut)]
    /\ ops' = ops + 1
    /\ UNCHANGED <<fs, now, stale, inflight, cleanupInterval>>

ResolveBasic ==
    /\ ops < MaxOps
    /\ \E q \in Queries(fs.tag) :
          Finish("basic", q[1], q[2], ResolveVariableValue(q[1], q[2], 0, World),
                 ResolveVariableValue(q[1], q[2], 0, ColdWorld))

ResolveEnhanced ==
    /\ ops < MaxOps
    /\ \E q \in Queries(fs.tag) :
          Finish("enhanced", q[1], q[2],
                 ResolveVariableValueEnhanced(q[1], q[2], 0, <<>>, World),
                 ResolveVariableValueEnhanced(q[1], q[2], 0, <<>>, ColdWorld))

FinishMulti(name, dir, out) ==
    /\ cache' = out.w.cache
    /\ resolvedModulePaths' = out.w.mp
    /\ last' = [NoLast EXCEPT !.op = "multi", !.name = name, !.dir = dir,
                              !.st = out.st, !.results = out.results,
                              !.reads = out.w.reads, !.div = out.w.div,
                              !.visited = out.w.visited, !.parents = out.w.parents,
                              !.reentered = out.w.reentered,
                              !.faults = out.w.faults]
    /\ ops' = ops + 1
    /\ UNCHANGED <<fs, now, stale, inflight, cleanupInterval>>

\* the hint provider's search directories: the file's directory, the
\* workspace root and a directory that does not exist
ResolveMulti ==
    /\ ops < MaxOps
    /\ \E q \in Queries(fs.tag) :
          FinishMulti(q[1], q[2],
                      ResolveVariableInMultipleContexts(
                          q[1], <<q[2], WorkspaceRoot, DirMissing>>, World))

\* the watched override file is edited on disk and the file watcher turns
\* the event into handleFileChange(path)
HandleFileChange ==
    /\ \E i \in 1..Len(fs.dirs[Watched(fs.tag).dir].files) :
          LET d == Watched(fs.tag).dir
              n == Watched(fs.tag).name
              f == fs.dirs[d].files[i]
          IN /\ f.name = <<Watched(fs.tag).base, ".tfvars">>
             /\ f.assigns[n] # ChangedValue
             /\ fs' = [fs EXCEPT !.dirs[d].files[i].assigns[n] = ChangedValue]
             /\ cache' = InvalidateFile(cache, FilePath(d, f))
             /\ stale' = (stale \/ cache' # <<>>)
             /\ last' = [NoLast EXCEPT !.op = "change", !.name = Id(n), !.dir = d]
    /\ UNCHANGED <<resolvedModulePaths, now, ops, inflight, cleanupInterval>>

ClearCache ==
    /\ cache # <<>> \/ resolvedModulePaths # NoMap
    /\ cache' = CacheClear(cache)
    /\ resolvedModulePaths' = NoMap
    /\ stale' = FALSE
    /\ last' = [NoLast EXCEPT !.op = "clear"]
    /\ UNCHANGED <<fs, now, ops, inflight, cleanupInterval>>

\* time passes
Tick ==
    /\ now + TickStep <= MaxNow
    /\ now' = now + TickStep
    /\ UNCHANGED <<fs, cache, resolvedModulePaths, last, stale, ops, inflight, cleanupInterval>>

Next ==
    \/ ResolveBasic
    \/ ResolveEnhanced
    \/ ResolveMulti
    \/ HandleFileChange
    \/ ClearCache
    \/ Tick

Spec == Init /\ [][Next]_vars

\* the resolver in the workspace whose module sources lead out of the root
SiblingInit ==
    /\ fs = SiblingTree
    /\ cache = <<>>
    /\ resolvedModulePaths = NoMap
    /\ now = 0
    /\ last = NoLast
    /\ stale = FALSE
    /\ ops = 0
    /\ inflight = NoCall
    /\ cleanupInterval = SweepPeriod

SiblingSpec == SiblingInit /\ [][Next]_vars

(***************************************************************************)
(* The resolver over a file that is edited with no invalidation: the edit  *)
(* reaches neither handleFileChange nor clearCache, and only the TTL of    *)
(* the entries limits the age of what the resolver returns.                *)
(***************************************************************************)
AgeInit == Init /\ fs = EnvTree

\* the queries for the name the edit changes
AgeQueries == {q \in Queries(fs.tag) : q[1] = Id(Watched(fs.tag).name)}

AgeBasic ==
    /\ ops <= MaxOps
    /\ \E q \in AgeQueries :
          Finish("basic", q[1], q[2], ResolveVariableValue(q[1], q[2], 0, World),
                 ResolveVariableValue(q[1], q[2], 0, ColdWorld))

AgeEnhanced ==
    /\ ops <= MaxOps
    /\ \E q \in AgeQueries :
          Finish("enhanced", q[1], q[2],
                 ResolveVariableValueEnhanced(q[1], q[2], 0, <<>>, World),
                 ResolveVariableValueEnhanced(q[1], q[2], 0, <<>>, ColdWorld))

\* the override file is edited at time 0 and nothing is invalidated
EditUnseen ==
    /\ now = 0
    /\ \E i \in 1..Len(fs.dirs[Watched(fs.tag).dir].files) :
          LET d == Watched(fs.tag).dir
              n == Watched(fs.tag).name
              f == fs.dirs[d].files[i]
          IN /\ f.name = <<Watched(fs.tag).base, ".tfvars">>
             /\ f.assigns[n] # ChangedValue
             /\ fs' = [fs EXCEPT !.dirs[d].files[i].assigns[n] = ChangedValue]
             /\ last' = [NoLast EXCEPT !.op = "edit", !.name = Id(n), !.dir = d]
    /\ UNCHANGED <<cache, resolvedModulePaths, now, stale, ops, inflight, cleanupInterval>>

\* a whole TTL passes, twice at most
AgeTick ==
    /\ now + TTL <= 2 * TTL
    /\ now' = now + TTL
    /\ UNCHANGED <<fs, cache, resolvedModulePaths, last, stale, ops, inflight, cleanupInterval>>

AgeNext ==
    \/ AgeBasic
    \/ AgeEnhanced
    \/ EditUnseen
    \/ AgeTick

AgeSpec == AgeInit /\ [][AgeNext]_vars

\* a call made more than a TTL after the edit returns what the file holds
FreshWhenOld ==
    (/\ ops' = ops + 1
     /\ fs # EnvTree
     /\ now > TTL)
        => [st |-> last'.st, v |-> last'.v] = last'.cold

\* C31: a resolution that is called more than a TTL after the edit of the
\* file returns what the file holds now, never the content read before the
\* edit, which was read more than a TTL before the call
C31_StalenessBounded == [][FreshWhenOld]_vars

\* with no edit a resolution returns what a resolver with nothing cached
\* returns
AgeSameUnedited ==
    (last.op \in {"basic", "enhanced"} /\ fs = EnvTree)
        => [st |-> last.st, v |-> last.v] = last.cold

(***************************************************************************)
(* resolveVariableInMultipleContexts with its callbacks in flight: map     *)
(* starts one callback per search directory, the callbacks complete in any *)
(* order, and Promise.all hands their results on when all have completed.  *)
(* A callback is taken as one step at its completion.                      *)
(***************************************************************************)
Pending == [st |-> "pending", v |-> <<>>, directory |-> <<>>]

\* const promises = searchDirectories.map(async (dir) => { ... })
Dispatch ==
    /\ ops < MaxOps
    /\ inflight = NoCall
    /\ \E q \in Queries(fs.tag) :
          inflight' = [name |-> q[1], dirs |-> <<q[2], WorkspaceRoot, DirMissing>>,
                       slots |-> [i \in 1..3 |-> Pending], done |-> <<>>]
    /\ last' = [NoLast EXCEPT !.op = "dispatch"]
    /\ UNCHANGED <<fs, cache, resolvedModulePaths, now, stale, ops, cleanupInterval>>

\* what the callback of one directory returns: the value when it is
\* non-empty, null otherwise and after a caught error
CallbackResult(x, dir) ==
    IF x.st = "val" /\ x.v # <<>>
    THEN [st |-> "val", v |-> x.v, directory |-> dir]
    ELSE [st |-> "null", v |-> <<>>, directory |-> <<>>]

Completed(i, x) ==
    /\ inflight' = [inflight EXCEPT !.slots[i] = CallbackResult(x, inflight.dirs[i]),
                                    !.done = Append(@, i)]
    /\ cache' = x.w.cache
    /\ resolvedModulePaths' = x.w.mp
    /\ last' = [NoLast EXCEPT !.op = "callback", !.dir = inflight.dirs[i]]
    /\ UNCHANGED <<fs, now, stale, ops, cleanupInterval>>

\* the callback of searchDirectories[i] completes
Complete ==
    \E i \in 1..Len(inflight.dirs) :
        /\ inflight.slots[i] = Pending
        /\ Completed(i, ResolveVariableValue(inflight.name, inflight.dirs[i], 0, World))

ResolvedResultsByCompletion(slots, done) == [j \in 1..Len(done) |-> slots[done[j]]]

\* await Promise.all(promises): the results in the order of the promises
ResolvedResults(slots, done) == slots

\* for (const result of resolvedResults) if (result) results.push(result)
RECURSIVE PushResults(_, _, _)
PushResults(resolvedResults, i, results) ==
    IF i > Len(resolvedResults) THEN results
    ELSE PushResults(resolvedResults, i + 1,
             IF resolvedResults[i].st = "val"
             THEN Append(results, [value |-> resolvedResults[i].v,
                                   directory |-> resolvedResults[i].directory])
             ELSE results)

\* all callbacks have completed; expect holds, for each search directory,
\* what a resolver with nothing cached returns for it
Join ==
    /\ inflight # NoCall
    /\ \A i \in 1..Len(inflight.dirs) : inflight.slots[i] # Pending
    /\ last' = [op |-> "joined", name |-> inflight.name, dirs |-> inflight.dirs,
                done |-> inflight.done,
                results |-> PushResults(ResolvedResults(inflight.slots, inflight.done),
                                        1, <<>>),
                expect |-> [i \in 1..Len(inflight.dirs) |->
                              Outcome(ResolveVariableValue(inflight.name, inflight.dirs[i],
                                                           0, ColdWorld))]]
    /\ inflight' = NoCall
    /\ ops' = ops + 1
    /\ UNCHANGED <<fs, cache, resolvedModulePaths, now, stale, cleanupInterval>>

MultiNext ==
    \/ Dispatch
    \/ Complete
    \/ Join
    \/ Tick

MultiSpec == Init /\ [][MultiNext]_vars

(***************************************************************************)
(* TerraformCache on its own: get, set, invalidateFile, clear and the      *)
(* periodic sweep, on an empty cache and on a cache that MAX_SIZE sets of  *)
(* one millisecond have filled.                                            *)
(***************************************************************************)
PrefillKey(i) == ResolveKey(Id("v" \o ToString(i)), WorkspaceRoot, 0)

PrefillValue == <<Lit("filled")>>

Prefill(n, t) ==
    [i \in 1..n |-> [key |-> PrefillKey(i), value |-> PrefillValue, timestamp |-> t,
                     accessCount |-> 1, lastAccessed |-> t]]

\* the keys the cache is asked for: the first key of the filled cache and
\* two keys of lookups in p and in p/c
CacheKeys ==
    {PrefillKey(1), FindKey("tfvars", Id("region"), DirP), EnhancedKey(Id("size"), DirC, 0, <<>>)}

\* the path fragments handed to invalidateFile: a directory and a file
Fragments == {PathStr(DirP), PathStr(DirP) \o <<"/", "terraform", ".tfvars">>}

\* the value a set stores names the time of the set
ValueAt(t) == <<Lit(ToString(t))>>

\* last holds the call, its time (t), the entries before it (pre) and, for
\* every key, the time (at) and the value (val) of the latest set
CacheInit ==
    /\ fs = EnvTree
    /\ cache \in {<<>>, Prefill(MAX_SIZE, 0)}
    /\ resolvedModulePaths = NoMap
    /\ now = 0
    /\ last = [op |-> "init", key |-> <<>>, hit |-> FALSE, value |-> <<>>, pre |-> <<>>,
               t |-> 0, at |-> [k \in CacheKeys |-> 0], val |-> [k \in CacheKeys |-> PrefillValue]]
    /\ stale = FALSE
    /\ ops = 0
    /\ inflight = NoCall
    /\ cleanupInterval = SweepPeriod

Called(op, key, hit, value) ==
    /\ last' = [last EXCEPT !.op = op, !.key = key, !.hit = hit, !.value = value,
                            !.pre = cache, !.t = now]
    /\ ops' = ops + 1
    /\ UNCHANGED <<fs, resolvedModulePaths, now, stale, inflight, cleanupInterval>>

GetReturned(key, g) ==
    /\ cache' = g.c
    /\ Called("get", key, g.hit, g.value)

CacheGetCall ==
    /\ ops < MaxOps
    /\ \E key \in CacheKeys : GetReturned(key, CacheGet(cache, key, now))

CacheSetCall ==
    /\ ops < MaxOps
    /\ \E key \in CacheKeys :
          /\ cache' = CacheSet(cache, key, ValueAt(now), now)
          /\ last' = [last EXCEPT !.op = "set", !.key = key, !.hit = FALSE, !.value = <<>>,
                                  !.pre = cache, !.t = now,
                                  !.at[key] = now, !.val[key] = ValueAt(now)]
          /\ ops' = ops + 1
          /\ UNCHANGED <<fs, resolvedModulePaths, now, stale, inflight, cleanupInterval>>

InvalidateFileCall ==
    /\ ops < MaxOps
    /\ \E filePath \in Fragments :
          /\ cache' = InvalidateFile(cache, filePath)
          /\ Called("invalidate", filePath, FALSE, <<>>)

CacheClearCall ==
    /\ ops < MaxOps
    /\ cache' = CacheClear(cache)
    /\ Called("clear", <<>>, FALSE, <<>>)

CleanupCall ==
    /\ ops < MaxOps
    /\ cache' = Cleanup(cache, now)
    /\ Called("cleanup", <<>>, FALSE, <<>>)

\* the times at which the cache is called: a millisecond after the start,
\* a whole TTL after it, and later
ClockTimes == {1, TTL, TTL + 1, MaxNow}

\* time passes
CacheTick ==
    /\ \E t \in ClockTimes :
          /\ now < t
          /\ t <= MaxNow
          /\ now' = t
    /\ UNCHANGED <<fs, cache, resolvedModulePaths, last, stale, ops, inflight, cleanupInterval>>

CacheNext ==
    \/ CacheGetCall
    \/ CacheSetCall
    \/ InvalidateFileCall
    \/ CacheClearCall
    \/ CleanupCall
    \/ CacheTick

CacheSpec == CacheInit /\ [][CacheNext]_vars

(***************************************************************************)
(* The cleanup timer of TerraformCache: setInterval(cleanup, 5 minutes),   *)
(* cleared by dispose().  cleanupInterval holds the time at which the      *)
(* timer is due next, and 0 (null) once the timer is cleared.              *)
(***************************************************************************)
\* the times at which the cache is called or the timer is due: just before
\* and exactly a TTL before the first run, right before it, and the same
\* around the second run
SweepTimes ==
    {SweepPeriod - TTL - 1, SweepPeriod - TTL, SweepPeriod - 1, SweepPeriod,
     2 * SweepPeriod - TTL - 1, 2 * SweepPeriod}

\* last also holds whether dispose() has run (disposed), how many runs of
\* the timer there were (runs) and what the runs removed and kept
SweepInit ==
    /\ fs = EnvTree
    /\ cache = <<>>
    /\ resolvedModulePaths = NoMap
    /\ now = 0
    /\ last = [op |-> "init", key |-> <<>>, hit |-> FALSE, value |-> <<>>, pre |-> <<>>,
               t |-> 0, at |-> [k \in CacheKeys |-> 0], val |-> [k \in CacheKeys |-> PrefillValue],
               disposed |-> FALSE, runs |-> 0, removed |-> 0, kept |-> 0]
    /\ stale = FALSE
    /\ ops = 0
    /\ inflight = NoCall
    /\ cleanupInterval = SweepPeriod

\* time passes; a timer that is set runs when it is due
SweepTick ==
    /\ \E t \in SweepTimes :
          /\ now < t
          /\ cleanupInterval # 0 => t <= cleanupInterval
          /\ now' = t
    /\ UNCHANGED <<fs, cache, resolvedModulePaths, last, stale, ops, inflight, cleanupInterval>>

\* the callback of setInterval: this.cleanup(); the timer stays set
TimerFires ==
    /\ cleanupInterval # 0
    /\ now = cleanupInterval
    /\ cache' = Cleanup(cache, now)
    /\ cleanupInterval' = cleanupInterval + SweepPeriod
    /\ last' = [last EXCEPT !.op = "sweep", !.key = <<>>, !.hit = FALSE, !.value = <<>>,
                            !.pre = cache, !.t = now, !.runs = @ + 1,
                            !.removed = @ + Len(cache) - Len(Cleanup(cache, now)),
                            !.kept = @ + Len(Cleanup(cache, now))]
    /\ UNCHANGED <<fs, resolvedModulePaths, now, stale, ops, inflight>>

\* dispose(): clearInterval, cleanupInterval = null, clear()
Dispose ==
    /\ cleanupInterval' = 0
    /\ cache' = CacheClear(cache)
    /\ last' = [last EXCEPT !.op = "dispose", !.key = <<>>, !.hit = FALSE, !.value = <<>>,
                            !.pre = cache, !.t = now, !.disposed = TRUE]
    /\ UNCHANGED <<fs, resolvedModulePaths, now, stale, ops, inflight>>

SweepNext ==
    \/ CacheGetCall
    \/ CacheSetCall
    \/ TimerFires
    \/ Dispose
    \/ SweepTick

SweepSpec == SweepInit /\ [][SweepNext]_vars

\* the entries of c that are entry e
Holds(c, e) == \E j \in 1..Len(c) : c[j] = e

\* C30: a run of the cleanup timer, which is due every 5 minutes, removes
\* every entry whose age is above the TTL, keeps every other entry and adds
\* none; no run happens once dispose() has been called
C30_SweepExact ==
    last.op = "sweep" =>
        /\ \A i \in 1..Len(last.pre) :
              Holds(cache, last.pre[i]) <=> last.t - last.pre[i].timestamp <= TTL
        /\ \A j \in 1..Len(cache) : Holds(last.pre, cache[j])
        /\ last.t = last.runs * SweepPeriod
        /\ ~last.disposed

\* a run removed an entry and kept one, dispose() was called after it, and
\* the time of the next run has come
C30_Witness ==
    /\ last.disposed
    /\ last.runs = 1
    /\ last.removed > 0
    /\ last.kept > 0
    /\ now = 2 * SweepPeriod

(***************************************************************************)
(* The keys under which the resolver and the hint provider ask the one     *)
(* TerraformCache for a value                                              *)
(***************************************************************************)
\* the functions that build a cache key, and the type argument of
\* resolveVariableWithCache
ResolverKinds == {"resolve", "enhanced", "tfvars", "locals", "outputs", "findModuleCall"}

ProviderTypes == {"variable", "local", "module", "data"}

KeyNames == {Id("region"), Id("net"), ModRef("net", "id")}

KeyDirs == {WorkspaceRoot, DirP}

\* resolveVariableValue and resolveVariableValueEnhanced take a depth, the
\* other functions none
DepthsOf(kind) == IF kind \in {"resolve", "enhanced"} THEN 0..maxRecursionDepth ELSE {0}

Requests ==
    {r \in [kind : ResolverKinds \cup ProviderTypes, side : {"resolver", "provider"},
            name : KeyNames, dir : KeyDirs, depth : 0..maxRecursionDepth] :
        /\ r.depth \in DepthsOf(r.kind)
        /\ r.side = "resolver" <=> r.kind \in ResolverKinds
        /\ r.side = "provider" => r.kind \in ProviderTypes}

CacheKeyOf(r) ==
    CASE r.side = "provider" -> ProviderKey(r.kind, r.name, r.dir)
      [] r.kind = "resolve" -> ResolveKey(r.name, r.dir, r.depth)
      [] r.kind = "enhanced" -> EnhancedKey(r.name, r.dir, r.depth, <<>>)
      [] r.kind = "findModuleCall" -> FindKey("module", r.name, r.dir)
      [] OTHER -> FindKey(r.kind, r.name, r.dir)

KeyInit == Init /\ fs = EnvTree

\* two requests and the keys they use
KeyRequests ==
    /\ ops = 0
    /\ ops' = 1
    /\ \E r1 \in Requests, r2 \in Requests :
          last' = [op |-> "keys", r1 |-> r1, r2 |-> r2,
                   k1 |-> CacheKeyOf(r1), k2 |-> CacheKeyOf(r2)]
    /\ UNCHANGED <<fs, cache, resolvedModulePaths, now, stale, inflight, cleanupInterval>>

KeyNext == KeyRequests

KeySpec == KeyInit /\ [][KeyNext]_vars

(***************************************************************************)
(* object.property in the hint provider: the base reference is resolved    *)
(* and one field is taken out of the resulting text.  The text is a        *)
(* sequence of tokens; a key is one or more tokens ("vpc_", "id"), white   *)
(* space stands only around = and : and after commas and is left out.      *)
(***************************************************************************)
Quote == "\""

ObjField(key, quoted, value) == [key |-> key, quoted |-> quoted, value |-> value]

RenderValue(field) ==
    IF field.quoted THEN <<Quote, field.value, Quote>> ELSE <<field.value>>

RECURSIVE RenderFields(_, _, _)
RenderFields(fields, i, json) ==
    IF i > Len(fields) THEN <<>>
    ELSE (IF i > 1 THEN <<",">> ELSE <<>>)
         \o (IF json THEN <<Quote>> \o fields[i].key \o <<Quote, ":">>
                     ELSE fields[i].key \o <<"=">>)
         \o RenderValue(fields[i])
         \o RenderFields(fields, i + 1, json)

\* the text of an object literal as it stands in a file
RenderObject(obj) == <<"{">> \o RenderFields(obj.fields, 1, obj.json) \o <<"}">>

AsValue(tokens) == [i \in 1..Len(tokens) |-> Lit(tokens[i])]

AsText(value) == [i \in 1..Len(value) |-> value[i].a]

\* the index of the first token from i on that is a quote, 0 when none
NextQuote(t, i) ==
    LET at == {j \in i..Len(t) : t[j] = Quote} IN
    IF at = {} THEN 0 ELSE CHOOSE j \in at : \A k \in at : j <= k

NoObject == [ok |-> FALSE, obj |-> NoMap]

\* JSON.parse of text that starts with { and ends with }: the members from
\* token i on, a later member replacing an earlier one of the same key
RECURSIVE JsonMembers(_, _, _)
JsonMemberEnd(t, next, obj) ==
    IF next > Len(t) THEN NoObject
    ELSE IF t[next] = "}" THEN (IF next = Len(t) THEN [ok |-> TRUE, obj |-> obj] ELSE NoObject)
    ELSE IF t[next] = "," THEN JsonMembers(t, next + 1, obj)
    ELSE NoObject

JsonMemberValue(t, key, at, obj) ==
    IF at > Len(t) THEN NoObject
    ELSE IF t[at] = Quote
    THEN LET close == NextQuote(t, at + 1) IN
         IF close = 0 THEN NoObject
         ELSE JsonMemberEnd(t, close + 1,
                  (key :> [string |-> TRUE, text |-> SubSeq(t, at + 1, close - 1)])
                      @@ [k \in DOMAIN obj \ {key} |-> obj[k]])
    ELSE IF t[at] \in {",", "}", ":", "="} THEN NoObject
    ELSE JsonMemberEnd(t, at + 1,
             (key :> [string |-> FALSE, text |-> <<t[at]>>])
                 @@ [k \in DOMAIN obj \ {key} |-> obj[k]])

JsonMembers(t, i, obj) ==
    IF i > Len(t) \/ t[i] # Quote THEN NoObject
    ELSE LET close == NextQuote(t, i + 1) IN
         IF close = 0 \/ close + 1 > Len(t) \/ t[close + 1] # ":" THEN NoObject
         ELSE JsonMemberValue(t, SubSeq(t, i + 1, close - 1), close + 2, obj)

JsonParse(t) ==
    IF Len(t) = 2 THEN [ok |-> TRUE, obj |-> NoMap] ELSE JsonMembers(t, 2, NoMap)

\* the positions at which propertyName followed by = stands in the text
KeyMatches(t, propertyName) ==
    {i \in 1..Len(t) :
        /\ i + Len(propertyName) <= Len(t)
        /\ SubSeq(t, i, i + Len(propertyName) - 1) = propertyName
        /\ t[i + Len(propertyName)] = "="}

First(positions) == CHOOSE i \in positions : \A j \in positions : i <= j

\* propertyName\s*=\s*"([^"]*)"
QuotedMatches(t, propertyName) ==
    {i \in KeyMatches(t, propertyName) :
        /\ i + Len(propertyName) + 1 <= Len(t)
        /\ t[i + Len(propertyName) + 1] = Quote
        /\ NextQuote(t, i + Len(propertyName) + 2) # 0}

QuotedCapture(t, propertyName, i) ==
    SubSeq(t, i + Len(propertyName) + 2, NextQuote(t, i + Len(propertyName) + 2) - 1)

\* propertyName\s*=\s*([^\s,}]+)
UnquotedMatches(t, propertyName) ==
    {i \in KeyMatches(t, propertyName) :
        /\ i + Len(propertyName) + 1 <= Len(t)
        /\ t[i + Len(propertyName) + 1] \notin {",", "}"}}

UnquotedCapture(t, propertyName, i) ==
    LET from == i + Len(propertyName) + 1
        stops == {j \in from..Len(t) : t[j] \in {",", "}"}}
    IN SubSeq(t, from, IF stops = {} THEN Len(t) ELSE First(stops) - 1)

HclProperty(t, propertyName) ==
    IF QuotedMatches(t, propertyName) # {}
    THEN Found(<<Quote>> \o QuotedCapture(t, propertyName, First(QuotedMatches(t, propertyName)))
                  \o <<Quote>>)
    ELSE IF UnquotedMatches(t, propertyName) # {}
    THEN Found(UnquotedCapture(t, propertyName, First(UnquotedMatches(t, propertyName))))
    ELSE NotFound

JsonProperty(t, propertyName, parsed) ==
    IF parsed.ok /\ propertyName \in DOMAIN parsed.obj
    THEN Found(IF parsed.obj[propertyName].string
               THEN <<Quote>> \o parsed.obj[propertyName].text \o <<Quote>>
               ELSE parsed.obj[propertyName].text)
    ELSE HclProperty(t, propertyName)

ExtractPropertyFromObject(t, propertyName) ==
    IF t = <<>> \/ t[1] # "{" \/ t[Len(t)] # "}" THEN NotFound
    ELSE JsonProperty(t, propertyName, JsonParse(t))

PropertyOf(objectValue, propertyName) ==
    IF objectValue.st # "val" \/ objectValue.v = <<>>
    THEN [st |-> "null", v |-> <<>>, w |-> objectValue.w, base |-> Outcome(objectValue)]
    ELSE [st |-> ExtractPropertyFromObject(AsText(objectValue.v), propertyName).st,
          v |-> ExtractPropertyFromObject(AsText(objectValue.v), propertyName).v,
          w |-> objectValue.w, base |-> Outcome(objectValue)]

ResolveObjectPropertyOf(objectName, propertyName, searchPath, w) ==
    PropertyOf(ResolveVariableValueEnhanced(objectName, searchPath, 0, <<>>, w), propertyName)

\* the object literals of the object workspace as their author wrote them
Objects ==
    ("tags" :> [json |-> FALSE,
                fields |-> << ObjField(<<"vpc_", "id">>, TRUE, "v-1"),
                              ObjField(<<"id">>, TRUE, "i-2"),
                              ObjField(<<"count">>, FALSE, "3") >>])
    @@ ("conf" :> [json |-> TRUE,
                   fields |-> << ObjField(<<"name">>, TRUE, "web"),
                                 ObjField(<<"port">>, FALSE, "80") >>])

\* object: two object literals and a plain value in the root's override
\* file, and an empty sub-directory
ObjTree ==
    [tag |-> "object",
     dirs |->
        (WorkspaceRoot :> Listing(<<
            TfvarsFile("terraform",
                       [n \in DOMAIN Objects |-> AsValue(RenderObject(Objects[n]))]
                           @@ ("plain" :> <<Lit("text")>>)) >>))
        @@ (DirP :> Listing(<< TfFile("main", NoMap, NoMap, <<>>) >>))]

ObjectNames == {"tags", "conf", "plain", "absent"}

PropertyNames == {<<"id">>, <<"vpc_", "id">>, <<"count">>, <<"name">>, <<"port">>, <<"owner">>}

ObjectInit ==
    /\ fs = ObjTree
    /\ cache = <<>>
    /\ resolvedModulePaths = NoMap
    /\ now = 0
    /\ last = NoLast
    /\ stale = FALSE
    /\ ops = 0
    /\ inflight = NoCall
    /\ cleanupInterval = SweepPeriod

PropertyResolved(objectName, propertyName, searchPath, out) ==
    /\ cache' = out.w.cache
    /\ resolvedModulePaths' = out.w.mp
    /\ last' = [op |-> "property", name |-> objectName, property |-> propertyName,
                dir |-> searchPath, base |-> out.base, st |-> out.st, v |-> out.v]
    /\ ops' = ops + 1
    /\ UNCHANGED <<fs, now, stale, inflight, cleanupInterval>>

ResolveObjectProperty ==
    /\ ops < MaxOps
    /\ \E objectName \in ObjectNames, propertyName \in PropertyNames,
          searchPath \in {WorkspaceRoot, DirP} :
          PropertyResolved(objectName, propertyName, searchPath,
              ResolveObjectPropertyOf(Id(objectName), propertyName, searchPath, World))

ObjectNext == ResolveObjectProperty \/ Tick

ObjectSpec == ObjectInit /\ [][ObjectNext]_vars

(***************************************************************************)
(* TerraformInlayProvider.generateInlayHints.  The text of the range is a  *)
(* sequence of references; a reference is [prefix, name, prop, path,       *)
(* quoted]: prefix.name or prefix.name.prop, path the text after the       *)
(* prefix, quoted when isInStringOrComment holds at its end.  A step is    *)
(* one turn of the while loop; the token may be raised between two turns   *)
(* or while a turn awaits the resolver.                                    *)
(***************************************************************************)
\* the longest text of a range, in references
MaxRefs == 2

HintPatterns ==
    << [type |-> "variable_property", prefix |-> "var", property |-> TRUE],
       [type |-> "variable", prefix |-> "var", property |-> FALSE],
       [type |-> "local_property", prefix |-> "local", property |-> TRUE],
       [type |-> "local", prefix |-> "local", property |-> FALSE],
       [type |-> "module", prefix |-> "module", property |-> FALSE],
       [type |-> "data", prefix |-> "data", property |-> TRUE] >>

Ref(prefix, name, prop, path, quoted) ==
    [prefix |-> prefix, name |-> name, prop |-> prop, path |-> path, quoted |-> quoted]

Refs ==
    { Ref("var", "tags", <<"id">>, "tags.id", FALSE),
      Ref("var", "plain", <<>>, "plain", FALSE),
      Ref("var", "absent", <<>>, "absent", FALSE),
      Ref("local", "plain", <<>>, "plain", TRUE),
      Ref("module", "net", <<"id">>, "net.id", FALSE) }

Texts == UNION {[1..n -> Refs] : n \in 1..MaxRefs}

\* pattern.regex matches at the reference
RegexMatches(pattern, ref) ==
    /\ ref.prefix = pattern.prefix
    /\ pattern.property => ref.prop # <<>>

\* pattern.regex.exec(text) from lastIndex: the first match, 0 for null
Exec(text, pattern, lastIndex) ==
    LET ms == {i \in lastIndex..Len(text) : RegexMatches(pattern, text[i])} IN
    IF ms = {} THEN 0 ELSE CHOOSE i \in ms : \A j \in ms : i <= j

\* match[0] ends after the name or after the whole reference
WholeMatch(pattern, ref) == pattern.property \/ pattern.type = "module" \/ ref.prop = <<>>

\* match[1]
VariableName(pattern, ref) ==
    IF pattern.type \in {"module", "data"} THEN Id(ref.path) ELSE Id(ref.name)

\* match[2] for the property patterns, null otherwise
PropertyName(pattern, ref) ==
    IF pattern.type \in {"variable_property", "local_property"} THEN ref.prop ELSE <<>>

\* endPosition and fullMatch
PositionKey(pattern, ref, m) == <<m, WholeMatch(pattern, ref)>>

\* the search paths: the directory of the document, the workspace root and
\* the environment directories, none of which exists
SearchPaths(currentDir) ==
    IF currentDir = WorkspaceRoot THEN <<WorkspaceRoot, DirMissing>>
    ELSE <<currentDir, WorkspaceRoot, DirMissing>>

ContextResolved(variableName, propertyName, searchPath, w) ==
    IF propertyName # <<>>
    THEN Outcome(ResolveObjectPropertyOf(variableName, propertyName, searchPath, w))
             @@ [w |-> ResolveObjectPropertyOf(variableName, propertyName, searchPath, w).w]
    ELSE Catch(ResolveVariableValueEnhanced(variableName, searchPath, 0, <<>>, w))

\* resolvedValues after a search path gave r
Merged(resolvedValues, r, searchPath) ==
    IF r.st # "val" \/ r.v = <<>> THEN resolvedValues
    ELSE IF \E k \in 1..Len(resolvedValues) : resolvedValues[k].value = r.v
    THEN [k \in 1..Len(resolvedValues) |->
             IF resolvedValues[k].value = r.v
             THEN [resolvedValues[k] EXCEPT !.context = Append(@, searchPath)]
             ELSE resolvedValues[k]]
    ELSE Append(resolvedValues, [value |-> r.v, context |-> <<searchPath>>,
                                 source |-> searchPath])

\* resolveVariableAllContextsWithProperty: [values, w]
RECURSIVE SearchAll(_, _, _, _, _, _)
Searched(variableName, propertyName, searchPaths, i, resolvedValues, r) ==
    SearchAll(variableName, propertyName, searchPaths, i + 1,
              Merged(resolvedValues, r, searchPaths[i]), r.w)

SearchAll(variableName, propertyName, searchPaths, i, resolvedValues, w) ==
    IF i > Len(searchPaths) THEN [values |-> resolvedValues, w |-> w]
    ELSE Searched(variableName, propertyName, searchPaths, i, resolvedValues,
                  ContextResolved(variableName, propertyName, searchPaths[i], w))

ResolveVariableAllContextsWithProperty(variableName, propertyName, currentDir, w) ==
    SearchAll(variableName, propertyName, SearchPaths(currentDir), 1, <<>>, w)

\* createInlayHintWithMultipleValues
Hint(positionKey, allResolvedValues, variableName, propertyName) ==
    [position |-> positionKey, values |-> allResolvedValues,
     name |-> variableName, property |-> propertyName]

\* the body of the while loop after the resolver gave a
Hinted(run, pattern, ref, m, a) ==
    [run |-> [run EXCEPT !.lastIndex = m + 1,
                         !.processedPositions = @ \cup {PositionKey(pattern, ref, m)},
                         !.hints = IF Len(a.values) > 0
                                   THEN Append(@, Hint(PositionKey(pattern, ref, m), a.values,
                                                       VariableName(pattern, ref),
                                                       PropertyName(pattern, ref)))
                                   ELSE @],
     w |-> a.w]

\* the body of the while loop for the match at m: [run, w]
MatchBody(run, pattern, ref, m, w) ==
    IF PositionKey(pattern, ref, m) \in run.processedPositions
    THEN [run |-> [run EXCEPT !.lastIndex = m + 1], w |-> w]
    ELSE IF ref.quoted
    THEN [run |-> [run EXCEPT !.lastIndex = m + 1,
                              !.processedPositions = @ \cup {PositionKey(pattern, ref, m)}],
          w |-> w]
    ELSE Hinted(run, pattern, ref, m,
                ResolveVariableAllContextsWithProperty(VariableName(pattern, ref),
                                                       PropertyName(pattern, ref),
                                                       run.dir, w))

NewRun(text, dir) ==
    [text |-> text, dir |-> dir, p |-> 1, lastIndex |-> 1, hints |-> <<>>,
     processedPositions |-> {}, token |-> FALSE, late |-> 0, cache0 |-> cache]

\* the run with a token that is never raised: the hints it returns
RECURSIVE HintLoop(_, _)
LoopBody(a) == HintLoop(a.run, a.w)

LoopAt(run, m, w) ==
    IF m # 0 THEN LoopBody(MatchBody(run, HintPatterns[run.p], run.text[m], m, w))
    ELSE IF run.p = Len(HintPatterns) THEN run.hints
    ELSE HintLoop([run EXCEPT !.p = @ + 1, !.lastIndex = 1], w)

HintLoop(run, w) == LoopAt(run, Exec(run.text, HintPatterns[run.p], run.lastIndex), w)

HintInit ==
    /\ fs = ObjTree
    /\ cache = <<>>
    /\ resolvedModulePaths = NoMap
    /\ now = 0
    /\ last = [op |-> "init", text |-> <<>>, hints |-> <<>>, cancelled |-> FALSE,
               late |-> 0, full |-> <<>>]
    /\ stale = FALSE
    /\ ops = 0
    /\ inflight = NoCall
    /\ cleanupInterval = SweepPeriod

Hinting == inflight # NoCall

\* provideInlayHints calls generateInlayHints(document, range, token)
GenerateInlayHints ==
    /\ ops = 0
    /\ ~Hinting
    /\ \E text \in Texts : inflight' = NewRun(text, DirP)
    /\ ops' = 1
    /\ UNCHANGED <<fs, cache, resolvedModulePaths, now, last, stale, cleanupInterval>>

\* the editor raises the token
CancellationRequested ==
    /\ Hinting
    /\ ~inflight.token
    /\ inflight' = [inflight EXCEPT !.token = TRUE]
    /\ UNCHANGED <<fs, cache, resolvedModulePaths, now, last, stale, ops, cleanupInterval>>

\* the match at hand in the run
MatchAt == Exec(inflight.text, HintPatterns[inflight.p], inflight.lastIndex)

StoppedNever(run) == FALSE

\* if (token.isCancellationRequested) return hints
Stopped(run) == run.token

\* the while loop ends for the pattern and the for loop goes on
NextPattern ==
    /\ Hinting
    /\ MatchAt = 0
    /\ inflight.p < Len(HintPatterns)
    /\ inflight' = [inflight EXCEPT !.p = @ + 1, !.lastIndex = 1]
    /\ UNCHANGED <<fs, cache, resolvedModulePaths, now, last, stale, ops, cleanupInterval>>

Attempted(a) ==
    /\ inflight' = [a.run EXCEPT !.late = IF inflight.token THEN @ + 1 ELSE @]
    /\ cache' = a.w.cache
    /\ resolvedModulePaths' = a.w.mp

\* one turn of the while loop with the token not seen raised
MatchAttempt ==
    /\ Hinting
    /\ MatchAt # 0
    /\ ~Stopped(inflight)
    /\ Attempted(MatchBody(inflight, HintPatterns[inflight.p], inflight.text[MatchAt],
                           MatchAt, World))
    /\ UNCHANGED <<fs, now, last, stale, ops, cleanupInterval>>

HintsReturned(cancelled) ==
    /\ last' = [op |-> "hints", text |-> inflight.text, hints |-> inflight.hints,
                cancelled |-> cancelled, late |-> inflight.late,
                full |-> HintLoop(NewRun(inflight.text, inflight.dir),
                                  [World EXCEPT !.cache = inflight.cache0, !.mp = NoMap])]
    /\ inflight' = NoCall
    /\ UNCHANGED <<fs, cache, resolvedModulePaths, now, stale, ops, cleanupInterval>>

\* return hints inside the loop
ReturnCancelled ==
    /\ Hinting
    /\ MatchAt # 0
    /\ Stopped(inflight)
    /\ HintsReturned(TRUE)

\* return hints after the loops
ReturnAll ==
    /\ Hinting
    /\ MatchAt = 0
    /\ inflight.p = Len(HintPatterns)
    /\ HintsReturned(FALSE)

HintNext ==
    \/ GenerateInlayHints
    \/ CancellationRequested
    \/ NextPattern
    \/ MatchAttempt
    \/ ReturnCancelled
    \/ ReturnAll

HintSpec == HintInit /\ [][HintNext]_vars

(***************************************************************************)
(* TerraformParser on text.  A text is a sequence of characters; a word or *)
(* a part of a word that no test of the parser looks into is one           *)
(* character of the sequence.                                              *)
(***************************************************************************)
\* the longest text handed to hasMatchingBraces, in characters
MaxChars == 4

Backslash == "\\"
Newline == "\n"

RECURSIVE BraceScan(_, _, _, _, _)
BraceScan(str, i, braceCount, inString, escaped) ==
    IF i > Len(str) THEN braceCount
    ELSE IF escaped THEN BraceScan(str, i + 1, braceCount, inString, FALSE)
    ELSE IF str[i] = Backslash THEN BraceScan(str, i + 1, braceCount, inString, TRUE)
    ELSE IF str[i] = Quote THEN BraceScan(str, i + 1, braceCount, ~inString, FALSE)
    ELSE IF ~inString /\ str[i] = "{" THEN BraceScan(str, i + 1, braceCount + 1, inString, FALSE)
    ELSE IF ~inString /\ str[i] = "}" THEN BraceScan(str, i + 1, braceCount - 1, inString, FALSE)
    ELSE BraceScan(str, i + 1, braceCount, inString, FALSE)

HasMatchingBracesNever(str) == FALSE

HasMatchingBraces(str) == BraceScan(str, 1, 0, FALSE, FALSE) = 0

BraceChars == {"{", "}", Quote, Backslash, "a"}

BraceTexts == UNION {[1..n -> BraceChars] : n \in 0..MaxChars}

ParserInit ==
    /\ fs = ObjTree
    /\ cache = <<>>
    /\ resolvedModulePaths = NoMap
    /\ now = 0
    /\ last = [op |-> "init", input |-> <<>>, expected |-> <<>>, st |-> "null", v |-> <<>>]
    /\ stale = FALSE
    /\ ops = 0
    /\ inflight = NoCall
    /\ cleanupInterval = SweepPeriod

Parsed2(op, input, expected, st, v) ==
    /\ last' = [op |-> op, input |-> input, expected |-> expected, st |-> st, v |-> v]
    /\ ops' = ops + 1
    /\ UNCHANGED <<fs, cache, resolvedModulePaths, now, stale, inflight, cleanupInterval>>

HasMatchingBracesCall ==
    /\ ops = 0
    /\ \E str \in BraceTexts :
          Parsed2("braces", str, <<>>, IF HasMatchingBraces(str) THEN "val" ELSE "null", <<>>)

IsBlank(c) == c \in {" ", Newline}

\* the first position from i on that holds no blank
SkipBlanks(str, i) ==
    LET js == {j \in i..(Len(str) + 1) : j > Len(str) \/ ~IsBlank(str[j])}
    IN CHOOSE j \in js : \A k \in js : j <= k

\* the last position up to i that holds no blank, 0 if there is none
LastNonBlank(str, i) ==
    LET js == {j \in 0..i : j = 0 \/ ~IsBlank(str[j])}
    IN CHOOSE j \in js : \A k \in js : k <= j

\* str.trim()
Trimmed(str) == SubSeq(str, SkipBlanks(str, 1), LastNonBlank(str, Len(str)))

\* str.indexOf(c) + 1
IndexOf(str, c) ==
    LET js == {j \in 1..Len(str) : str[j] = c}
    IN IF js = {} THEN 0 ELSE CHOOSE j \in js : \A k \in js : j <= k

\* str.split("\n")
RECURSIVE SplitLines(_)
SplitLines(str) ==
    IF IndexOf(str, Newline) = 0 THEN <<str>>
    ELSE <<SubSeq(str, 1, IndexOf(str, Newline) - 1)>>
             \o SplitLines(SubSeq(str, IndexOf(str, Newline) + 1, Len(str)))

\* lines.join("\n")
RECURSIVE JoinLines(_)
JoinLines(lines) ==
    IF lines = <<>> THEN <<>>
    ELSE IF Len(lines) = 1 THEN lines[1]
    ELSE lines[1] \o <<Newline>> \o JoinLines(Tail(lines))

\* the display form of an object text.  JSON.stringify of the converted
\* text and formatHclObject both give the members of the text they are
\* handed, line by line; the form is taken as the lines of the text,
\* trimmed, without the empty ones, and the indentation is left out
NonEmpty(line) == line # <<>>

TrimmedLines(lines) == [i \in 1..Len(lines) |-> Trimmed(lines[i])]

FormatComplexObject(objectStr) == SelectSeq(TrimmedLines(SplitLines(objectStr)), NonEmpty)

\* ^\s*name\s*=\s*\{ from position i: the position of the brace, 0 for no
\* match
BraceAfterEquals(str, k) ==
    IF k <= Len(str) /\ str[k] = "=" /\ SkipBlanks(str, k + 1) <= Len(str)
       /\ str[SkipBlanks(str, k + 1)] = "{"
    THEN SkipBlanks(str, k + 1) ELSE 0

AssignmentOpens(str, variableName, i) ==
    IF SkipBlanks(str, i) <= Len(str) /\ str[SkipBlanks(str, i)] = variableName
    THEN BraceAfterEquals(str, SkipBlanks(str, SkipBlanks(str, i) + 1))
    ELSE 0

\* the matches of /\\{/g and /\\}/g in the line: a backslash and the brace
BackslashBraces(line, brace) ==
    Cardinality({i \in 1..(Len(line) - 1) : line[i] = Backslash /\ line[i + 1] = brace})

BraceBalance(line) == BackslashBraces(line, "{") - BackslashBraces(line, "}")

\* line.substring(line.indexOf("=") + 1).trim()
AfterEquals(line) == Trimmed(SubSeq(line, IndexOf(line, "=") + 1, Len(line)))

\* the for loop of extractCompleteObject: the object lines
RECURSIVE ObjectLines(_, _, _, _, _, _)
ObjectLines(lines, i, variableName, inObject, braceCount, objectLines) ==
    IF i > Len(lines) THEN objectLines
    ELSE IF ~inObject /\ AssignmentOpens(lines[i], variableName, 1) # 0
    THEN IF BraceBalance(lines[i]) = 0
         THEN Append(objectLines, AfterEquals(lines[i]))
         ELSE ObjectLines(lines, i + 1, variableName, TRUE, BraceBalance(lines[i]),
                          Append(objectLines, AfterEquals(lines[i])))
    ELSE IF inObject
    THEN IF braceCount + BraceBalance(lines[i]) <= 0
         THEN Append(objectLines, lines[i])
         ELSE ObjectLines(lines, i + 1, variableName, TRUE,
                          braceCount + BraceBalance(lines[i]), Append(objectLines, lines[i]))
    ELSE ObjectLines(lines, i + 1, variableName, inObject, braceCount, objectLines)

Extracted(objectLines) ==
    IF Len(objectLines) > 0 THEN FormatComplexObject(JoinLines(objectLines))
    ELSE FormatComplexObject(<<"{", "}">>)

ExtractCompleteObject(content, variableName) ==
    Extracted(ObjectLines(SplitLines(content), 1, variableName, FALSE, 0, <<>>))

ParseComplexObject(objectValue, fullContent, variableName) ==
    IF Trimmed(objectValue) = <<"{">> THEN ExtractCompleteObject(fullContent, variableName)
    ELSE IF ~HasMatchingBraces(objectValue)
    THEN ExtractCompleteObject(fullContent, variableName)
    ELSE FormatComplexObject(objectValue)

\* the rest of the line after position j is blank
RestBlank(str, j) ==
    \A k \in (j + 1)..Len(str) :
        IsBlank(str[k]) \/ \E n \in (j + 1)..(k - 1) : str[n] = Newline

\* (\{[\s\S]*?\})\s*(?:\n|$) from the brace at open: the first closing
\* brace with nothing but blanks after it on its line, 0 for no match
LazyClose(str, open) ==
    LET js == {j \in (open + 1)..Len(str) : str[j] = "}" /\ RestBlank(str, j)}
    IN IF js = {} THEN 0 ELSE CHOOSE j \in js : \A k \in js : j <= k

\* the positions where ^ matches and the object pattern matches from
ObjectMatches(content, variableName) ==
    {i \in 1..Len(content) :
        /\ i = 1 \/ content[i - 1] = Newline
        /\ AssignmentOpens(content, variableName, i) # 0
        /\ LazyClose(content, AssignmentOpens(content, variableName, i)) # 0}

ObjectMatched(content, variableName, open) ==
    Found(ParseComplexObject(SubSeq(content, open, LazyClose(content, open)),
                             content, variableName))

\* parseHclVariable for a value that begins with a brace: of the patterns
\* only the object pattern matches such an assignment
ParseHclVariableText(content, variableName) ==
    IF ObjectMatches(content, variableName) = {} THEN NotFound
    ELSE ObjectMatched(content, variableName,
                       AssignmentOpens(content, variableName,
                                       First(ObjectMatches(content, variableName))))

\* object literals: a member is a key with a word or with an object
Leaf(key, word) == [key |-> key, word |-> word, sub |-> <<>>]

Nest(key, sub) == [key |-> key, word |-> "", sub |-> sub]

Indent(depth) == [i \in 1..depth |-> " "]

\* the object as its author writes it: on one line with commas between
\* the members, or a member a line, with or without a comma after each
RECURSIVE RenderMember(_, _, _, _)
RECURSIVE RenderBlock(_, _, _, _)
RenderMember(members, i, layout, depth) ==
    IF i > Len(members) THEN <<>>
    ELSE (IF layout.multi THEN Indent(depth + 1) ELSE <<>>)
         \o <<members[i].key, " ", "=", " ">>
         \o (IF members[i].sub = <<>> THEN <<members[i].word>>
             ELSE RenderBlock(members[i].sub, layout, depth + 1, 1))
         \o (IF layout.comma \/ (~layout.multi /\ i < Len(members)) THEN <<",">> ELSE <<>>)
         \o (IF layout.multi THEN <<Newline>> ELSE <<" ">>)
         \o RenderMember(members, i + 1, layout, depth)

RenderBlock(members, layout, depth, i) ==
    <<"{">> \o (IF layout.multi THEN <<Newline>> ELSE <<" ">>)
        \o RenderMember(members, i, layout, depth)
        \o (IF layout.multi THEN Indent(depth) ELSE <<>>) \o <<"}">>

ObjectShapes ==
    { << Leaf("a", "1") >>,
      << Nest("a", << Leaf("b", "1") >>), Leaf("c", "2") >>,
      << Leaf("c", "2"), Nest("a", << Leaf("b", "1") >>) >>,
      << Nest("a", << Nest("d", << Leaf("b", "1") >>) >>) >> }

Layouts == [multi : BOOLEAN, comma : BOOLEAN, lead : BOOLEAN]

\* a file that assigns the object to cfg, after another assignment or first
Document(members, layout) ==
    (IF layout.lead THEN <<"other", " ", "=", " ", "5", Newline>> ELSE <<>>)
        \o <<"cfg", " ", "=", " ">> \o RenderBlock(members, layout, 0, 1) \o <<Newline>>

HclParsed(members, layout, r) ==
    Parsed2("hcl", Document(members, layout),
            [members |-> members, layout |-> layout,
             whole |-> FormatComplexObject(RenderBlock(members, layout, 0, 1))],
            r.st, r.v)

ParseHclVariableCall ==
    /\ ops = 0
    /\ \E members \in ObjectShapes, layout \in Layouts :
          HclParsed(members, layout,
                    ParseHclVariableText(Document(members, layout), "cfg"))

\* the longest module body, in lines
MaxLines == 2

\* cleanValue
WithoutComment(cleaned) ==
    IF IndexOf(cleaned, "#") # 0 THEN Trimmed(SubSeq(cleaned, 1, IndexOf(cleaned, "#") - 1))
    ELSE cleaned

WithoutComma(cleaned) ==
    IF cleaned # <<>> /\ cleaned[Len(cleaned)] = ","
    THEN Trimmed(SubSeq(cleaned, 1, Len(cleaned) - 1))
    ELSE cleaned

CleanValue(value) ==
    IF value = <<>> THEN <<>> ELSE WithoutComma(WithoutComment(Trimmed(value)))

\* the characters of \w: the words and parts of words of the module bodies
WordChars == {"source", "_dir", "count", "size", "tag", "note", "var", "s", "a", "b", "x", "1", "2"}

\* the end of (\w+) at the start of the line, 0 if no word stands there
WordEnd(line) ==
    LET js == {j \in 0..Len(line) : \A k \in 1..j : line[k] \in WordChars}
    IN CHOOSE j \in js : \A k \in js : k <= j

\* /^\s*(\w+)\s*=\s*(.+)$/ on the trimmed line: the position of =, 0 for no
\* match
EqualsAfterKey(line) ==
    IF WordEnd(line) > 0 /\ SkipBlanks(line, WordEnd(line) + 1) <= Len(line)
       /\ line[SkipBlanks(line, WordEnd(line) + 1)] = "="
       /\ SkipBlanks(line, WordEnd(line) + 1) < Len(line)
    THEN SkipBlanks(line, WordEnd(line) + 1) ELSE 0

LineSkipped(trimmedLine) ==
    \/ StartsWith(trimmedLine, <<"source">>)
    \/ StartsWith(trimmedLine, <<"#">>)
    \/ IndexOf(trimmedLine, "=") = 0

\* variables[key] = value
WithVariable(variables, trimmedLine) ==
    (SubSeq(trimmedLine, 1, WordEnd(trimmedLine))
        :> CleanValue(SubSeq(trimmedLine, SkipBlanks(trimmedLine, EqualsAfterKey(trimmedLine) + 1),
                             Len(trimmedLine))))
    @@ variables

\* the for loop of parseModuleVariables
RECURSIVE ModuleVariables(_, _, _)
ModuleVariables(lines, i, variables) ==
    IF i > Len(lines) THEN variables
    ELSE IF LineSkipped(Trimmed(lines[i])) \/ EqualsAfterKey(Trimmed(lines[i])) = 0
    THEN ModuleVariables(lines, i + 1, variables)
    ELSE ModuleVariables(lines, i + 1, WithVariable(variables, Trimmed(lines[i])))

ParseModuleVariables(moduleContent) == ModuleVariables(SplitLines(moduleContent), 1, NoMap)

\* the lines of a module body as their author means them: the source
\* line, a comment, and arguments with their key and expression
BodyLine(kind, key, expr, text) == [kind |-> kind, key |-> key, expr |-> expr, text |-> text]

BodyLines ==
    { BodyLine("source", <<"source">>, <<Quote, "./m", Quote>>,
               <<" ", "source", " ", "=", " ", Quote, "./m", Quote>>),
      BodyLine("comment", <<>>, <<>>, <<"#", " ", "note", " ", "=", " ", "1">>),
      BodyLine("arg", <<"count">>, <<"2">>, <<" ", "count", " ", "=", " ", "2">>),
      BodyLine("arg", <<"size">>, <<"var", ".", "s">>,
               <<" ", "size", " ", "=", " ", "var", ".", "s", " ", "#", " ", "b">>),
      BodyLine("arg", <<"source", "_dir">>, <<Quote, "x", Quote>>,
               <<" ", "source", "_dir", " ", "=", " ", Quote, "x", Quote>>),
      BodyLine("arg", <<"tag">>, <<Quote, "a", "#", "b", Quote>>,
               <<" ", "tag", " ", "=", " ", Quote, "a", "#", "b", Quote>>) }

Bodies == UNION {[1..n -> BodyLines] : n \in 1..MaxLines}

BodyText(body) == JoinLines([i \in 1..Len(body) |-> body[i].text])

\* the arguments of the body: every key with the expression of its last
\* line
RECURSIVE Arguments(_, _, _)
Arguments(body, i, variables) ==
    IF i > Len(body) THEN variables
    ELSE Arguments(body, i + 1,
                   IF body[i].kind = "arg" THEN (body[i].key :> body[i].expr) @@ variables
                   ELSE variables)

ParseModuleVariablesCall ==
    /\ ops = 0
    /\ \E body \in Bodies :
          Parsed2("module", body, Arguments(body, 1, NoMap), "val",
                  ParseModuleVariables(BodyText(body)))

ParserNext ==
    \/ HasMatchingBracesCall
    \/ ParseHclVariableCall
    \/ ParseModuleVariablesCall

ParserSpec == ParserInit /\ [][ParserNext]_vars

(***************************************************************************)
(* Two resolveVariableValue(name, dir) calls in flight together.  A call   *)
(* runs from one await to the next without interruption: the steps are    *)
(* the stretches of resolveVariableValue and findInTfvarsFiles between     *)
(* await directoryExists, await readdir, await readFile and the await on   *)
(* findInTfvarsFiles itself; what follows a miss in the override files     *)
(* (locals, outputs, module outputs, parent directories) is taken as one   *)
(* step.  inflight holds the calls.                                        *)
(***************************************************************************)
Tasks == {1, 2}

\* fresh: clearCache has completed after the file change and before the
\* first statement of the call
NewTask == [pc |-> "call", i |-> 0, visited |-> {}, st |-> "null", v |-> <<>>,
            fresh |-> FALSE]

\* the visited set of a call is its own: the parameter's default new Set()
VisitedShared(tasks, k) == UNION {tasks[j].visited : j \in Tasks}

VisitedOf(tasks, k) == tasks[k].visited

TaskWorld(k) == [World EXCEPT !.visited = VisitedOf(inflight.tasks, k)]

Racing == inflight # NoCall /\ "tasks" \in DOMAIN inflight

At(k, pc) == Racing /\ inflight.tasks[k].pc = pc

\* the index of the first override file from i on, 0 when there is none
NextTfvars(files, i) ==
    LET at == {j \in i..Len(files) : FileMatches("tfvars", files[j])} IN
    IF at = {} THEN 0 ELSE CHOOSE j \in at : \A m \in at : j <= m

Moved(k, task, c) ==
    /\ inflight' = [inflight EXCEPT !.tasks[k] = task]
    /\ cache' = c
    /\ UNCHANGED <<fs, resolvedModulePaths, now, last, stale, ops, cleanupInterval>>

Done(task, st, v) == [task EXCEPT !.pc = "done", !.st = st, !.v = v, !.visited = {}]

RaceStart ==
    /\ ops < MaxOps
    /\ inflight = NoCall
    /\ \E q \in Queries(fs.tag) :
          inflight' = [name |-> q[1], dir |-> q[2], tasks |-> [k \in Tasks |-> NewTask]]
    /\ UNCHANGED <<fs, cache, resolvedModulePaths, now, last, stale, ops, cleanupInterval>>

\* g is cache.get(cacheKey) of resolveVariableValue, t cache.get(cacheKey)
\* of findInTfvarsFiles
Called2(k, task, g, t) ==
    CASE g.st = "val" -> Moved(k, Done(task, "val", g.v), g.w.cache)
      [] VisitKey(inflight.name, inflight.dir, 0) \in VisitedOf(inflight.tasks, k) ->
            Moved(k, Done(task, "null", <<>>), g.w.cache)
      [] t.st = "val" ->
            Moved(k, [task EXCEPT !.pc = "found", !.v = t.v,
                                  !.visited = {VisitKey(inflight.name, inflight.dir, 0)}],
                  t.w.cache)
      [] OTHER ->
            Moved(k, [task EXCEPT !.pc = "exists",
                                  !.visited = {VisitKey(inflight.name, inflight.dir, 0)}],
                  t.w.cache)

Called1(k, task, g) ==
    Called2(k, task, g, WGet(g.w, FindKey("tfvars", inflight.name, inflight.dir)))

\* resolveVariableValue up to await directoryExists in findInTfvarsFiles
RaceCall ==
    \E k \in Tasks :
        /\ At(k, "call")
        /\ Called1(k, inflight.tasks[k],
                   WGet(TaskWorld(k), ResolveKey(inflight.name, inflight.dir, 0)))

\* directoryExists has answered; readdir is called
RaceExists ==
    \E k \in Tasks :
        /\ At(k, "exists")
        /\ Moved(k, [inflight.tasks[k] EXCEPT
                        !.pc = IF DirectoryExists(inflight.dir) THEN "listed" ELSE "miss"],
                 cache)

Listed(k, task, files) ==
    IF files.st = "throw" \/ NextTfvars(files.v, 1) = 0
    THEN Moved(k, [task EXCEPT !.pc = "miss"], cache)
    ELSE Moved(k, [task EXCEPT !.pc = "read", !.i = NextTfvars(files.v, 1)], cache)

\* readdir has answered; readFile is called for the first override file
RaceListed ==
    \E k \in Tasks :
        /\ At(k, "listed")
        /\ Listed(k, inflight.tasks[k], ReadDir(inflight.dir, TaskWorld(k)))

FileTried(k, task, files, a) ==
    CASE a.st = "val" -> Moved(k, [task EXCEPT !.pc = "found", !.v = a.v], a.w.cache)
      [] NextTfvars(files, task.i + 1) = 0 -> Moved(k, [task EXCEPT !.pc = "miss"], cache)
      [] OTHER -> Moved(k, [task EXCEPT !.i = NextTfvars(files, task.i + 1)], cache)

\* readFile has answered: parse, cache.set and return, or the next file
RaceRead ==
    \E k \in Tasks :
        /\ At(k, "read")
        /\ FileTried(k, inflight.tasks[k], fs.dirs[inflight.dir].files,
                     Catch(TryFile("tfvars", inflight.name, inflight.dir,
                                   fs.dirs[inflight.dir].files[inflight.tasks[k].i],
                                   FindKey("tfvars", inflight.name, inflight.dir),
                                   TaskWorld(k))))

\* findInTfvarsFiles has returned a value: cache.set(cacheKey, value), return
RaceFound ==
    \E k \in Tasks :
        /\ At(k, "found")
        /\ Moved(k, Done(inflight.tasks[k], "val", inflight.tasks[k].v),
                 WSet(TaskWorld(k), ResolveKey(inflight.name, inflight.dir, 0),
                      inflight.tasks[k].v).cache)

Finished(k, task, x) ==
    /\ inflight' = [inflight EXCEPT !.tasks[k] = Done(task, x.st, x.v)]
    /\ cache' = x.w.cache
    /\ resolvedModulePaths' = x.w.mp
    /\ UNCHANGED <<fs, now, last, stale, ops, cleanupInterval>>

\* findInTfvarsFiles has returned null: the rest of resolveVariableValue
RaceMiss ==
    \E k \in Tasks :
        /\ At(k, "miss")
        /\ Finished(k, inflight.tasks[k],
                    Return(AfterLookup(inflight.name, inflight.dir, 0,
                                       FirstHit(<<"locals", "outputs">>, 1, inflight.name,
                                                inflight.dir, TaskWorld(k))),
                           ResolveKey(inflight.name, inflight.dir, 0),
                           VisitKey(inflight.name, inflight.dir, 0)))

\* both calls have returned; lone is what a call alone on a resolver with
\* an empty cache returns, entry the value the cache holds for the key,
\* scans the calls that read an override file
RaceJoin ==
    /\ \A k \in Tasks : At(k, "done")
    /\ last' = [op |-> "race", name |-> inflight.name, dir |-> inflight.dir,
                results |-> [k \in Tasks |-> [st |-> inflight.tasks[k].st,
                                              v |-> inflight.tasks[k].v]],
                lone |-> Outcome(ResolveVariableValue(inflight.name, inflight.dir, 0,
                                                      ColdWorld)),
                scans |-> {k \in Tasks : inflight.tasks[k].i > 0},
                fresh |-> {k \in Tasks : inflight.tasks[k].fresh},
                entry |-> LET i == KeyIndex(cache, ResolveKey(inflight.name, inflight.dir, 0))
                          IN IF i = 0 THEN NotFound ELSE Found(cache[i].value)]
    /\ inflight' = NoCall
    /\ ops' = ops + 1
    /\ UNCHANGED <<fs, cache, resolvedModulePaths, now, stale, cleanupInterval>>

RaceNext ==
    \/ RaceStart
    \/ RaceCall
    \/ RaceExists
    \/ RaceListed
    \/ RaceRead
    \/ RaceFound
    \/ RaceMiss
    \/ RaceJoin
    \/ Tick

RaceSpec == Init /\ [][RaceNext]_vars

\* the watched file has its changed content
FileChanged ==
    \E i \in 1..Len(fs.dirs[Watched(fs.tag).dir].files) :
        /\ fs.dirs[Watched(fs.tag).dir].files[i].name = <<Watched(fs.tag).base, ".tfvars">>
        /\ fs.dirs[Watched(fs.tag).dir].files[i].assigns[Watched(fs.tag).name] = ChangedValue

\* clearCache() after the file change, a call being in flight
ClearAfterChange ==
    /\ Racing
    /\ FileChanged
    /\ cache' = CacheClear(cache)
    /\ resolvedModulePaths' = NoMap
    /\ stale' = FALSE
    /\ inflight' = [inflight EXCEPT !.tasks =
                       [k \in Tasks |-> [inflight.tasks[k] EXCEPT
                                            !.fresh = (inflight.tasks[k].pc = "call")]]]
    /\ UNCHANGED <<fs, now, last, ops, cleanupInterval>>

StaleNext ==
    \/ RaceStart
    \/ RaceCall
    \/ RaceExists
    \/ RaceListed
    \/ RaceRead
    \/ RaceFound
    \/ RaceMiss
    \/ RaceJoin
    \/ HandleFileChange
    \/ ClearAfterChange

StaleSpec == Init /\ [][StaleNext]_vars

(***************************************************************************)
(* The same call before and after clearCache, the files left alone         *)
(***************************************************************************)
\* clearCache after a call; last keeps the call and its result in first
ClearAfterCall ==
    /\ last.op \in {"basic", "enhanced"}
    /\ cache' = CacheClear(cache)
    /\ resolvedModulePaths' = NoMap
    /\ stale' = FALSE
    /\ last' = [op |-> "cleared", first |-> last]
    /\ UNCHANGED <<fs, now, ops, inflight, cleanupInterval>>

Again(first, out) ==
    /\ cache' = out.w.cache
    /\ resolvedModulePaths' = out.w.mp
    /\ last' = [op |-> "again", kind |-> first.op, name |-> first.name, dir |-> first.dir,
                first |-> [st |-> first.st, v |-> first.v], st |-> out.st, v |-> out.v]
    /\ UNCHANGED <<fs, now, stale, ops, inflight, cleanupInterval>>

\* the call made before clearCache is made once more
ResolveAgain ==
    /\ last.op = "cleared"
    /\ \/ /\ last.first.op = "basic"
          /\ Again(last.first, ResolveVariableValue(last.first.name, last.first.dir, 0, World))
       \/ /\ last.first.op = "enhanced"
          /\ Again(last.first,
                   ResolveVariableValueEnhanced(last.first.name, last.first.dir, 0, <<>>, World))

ClearNext ==
    \/ ResolveBasic
    \/ ResolveEnhanced
    \/ ClearAfterCall
    \/ ResolveAgain

ClearSpec == Init /\ [][ClearNext]_vars

(***************************************************************************)
(* What the files declare, read off the file tree                          *)
(***************************************************************************)
FilesOf(dir) ==
    IF dir \in DOMAIN fs.dirs /\ fs.dirs[dir].listable THEN fs.dirs[dir].files ELSE <<>>

Part(kind, f) ==
    CASE kind = "tfvars" -> f.assigns
      [] kind = "locals" -> f.locals
      [] kind = "outputs" -> f.outputs

\* the readable files of dir that give n a value of the kind
Declaring(kind, n, dir) ==
    {i \in 1..Len(FilesOf(dir)) :
        LET f == FilesOf(dir)[i] IN
        FileMatches(kind, f) /\ f.readable /\ n.k = "id" /\ n.a \in DOMAIN Part(kind, f)}

Declares(kind, n, dir) == Declaring(kind, n, dir) # {}

Declared(kind, n, dir) ==
    LET i == CHOOSE j \in Declaring(kind, n, dir) : \A k \in Declaring(kind, n, dir) : j <= k
    IN Part(kind, FilesOf(dir)[i])[n.a]

DeclaresAny(n, dir) == \E kind \in {"tfvars", "locals", "outputs"} : Declares(kind, n, dir)

\* the value the first source of dir, in the order override file, locals,
\* outputs, gives n
FirstDeclared(n, dir) ==
    IF Declares("tfvars", n, dir) THEN Declared("tfvars", n, dir)
    ELSE IF Declares("locals", n, dir) THEN Declared("locals", n, dir)
    ELSE Declared("outputs", n, dir)

\* the module blocks of dir whose source names the directory target and
\* that pass an argument named n
CallsPassing(n, dir, target) ==
    {m \in UNION {{f.modules[j] : j \in 1..Len(f.modules)} :
                    f \in IF dir \in DOMAIN fs.dirs
                          THEN {fs.dirs[dir].files[i] : i \in 1..Len(fs.dirs[dir].files)}
                          ELSE {}} :
        /\ m.source.kind = "rel"
        /\ PathResolve(dir, m.source.comps) = target
        /\ n.k = "id"
        /\ n.a \in DOMAIN m.variables}

\* the watched override file has been edited
Edited ==
    \E i \in 1..Len(fs.dirs[Watched(fs.tag).dir].files) :
        LET f == fs.dirs[Watched(fs.tag).dir].files[i] IN
        /\ f.name = <<Watched(fs.tag).base, ".tfvars">>
        /\ f.assigns[Watched(fs.tag).name] = ChangedValue

Resolved == last.op \in {"basic", "enhanced"}

\* dir is the workspace root or lies below it
Inside(dir) == StartsWith(dir, WorkspaceRoot)

TfvarsPath(path) == path[Len(path)] = ".tfvars"

(***************************************************************************)
(* Claims                                                                  *)
(***************************************************************************)
\* C1: after the watched file has changed and the change has been handed to
\* invalidateFile(path), a resolution returns what a fresh read of the
\* files gives, not the value cached before the change.
C1_InvalidatedFileIsReadAgain ==
    (Resolved /\ Edited) => Outcome(last) = last.cold

\* C2: while no file has changed under the cache entries, resolveVariableValue
\* and resolveVariableValueEnhanced return for every (reference, directory)
\* what a resolver with an empty cache returns, whatever earlier resolutions
\* and the passing of time left in the cache.
C2_CacheTransparent ==
    (Resolved /\ ~stale) => Outcome(last) = last.cold

\* a resolution answered without reading any file, the cache being warm
C2_Witness ==
    /\ last.op = "enhanced"
    /\ ~stale
    /\ last.st = "val"
    /\ last.reads = {}
    /\ last.dir = DirC

\* C3: every call of resolveVariableValue and resolveVariableValueEnhanced
\* terminates: no call tree goes deeper than HardDepth, on cyclic references
\* and on module calls whose sources point at each other.
C3_Terminates == ~last.div

C3_Witness ==
    /\ fs.tag = "cycle"
    /\ last.op = "basic"
    /\ last.name = ModRef("n", "o")
    /\ ~last.div

\* C4: with local.a = local.b and local.b = local.a in one directory,
\* resolving a from that directory returns not-found.
C4_LocalCycleNotFound ==
    (/\ Resolved
     /\ last.name = Id("a")
     /\ Declares("locals", Id("a"), last.dir)
     /\ Declared("locals", Id("a"), last.dir) = <<LocalRef("b")>>
     /\ Declares("locals", Id("b"), last.dir)
     /\ Declared("locals", Id("b"), last.dir) = <<LocalRef("a")>>)
    => last.st = "null"

\* C5: for a chain of references longer than the maximum recursion depth,
\* resolving the first reference returns not-found.
C5_LongChainNotFound ==
    (/\ Resolved
     /\ fs.tag = "chain"
     /\ ChainLen > maxRecursionDepth
     /\ last.name = Id(ChainName(0)))
    => last.st = "null"

\* C6: resolveVariableValue, resolveVariableValueEnhanced and
\* resolveVariableInMultipleContexts never hand an exception to the caller,
\* whatever directory listing or file read fails: the single forms return a
\* value or not-found, the multi-context form returns a list.
C6_NeverThrows ==
    /\ last.st # "throw"
    /\ last.op = "multi" => last.st = "val"

\* a resolution from a directory whose listing fails, continued in a parent
\* that holds an unreadable override file
C6_Witness ==
    /\ fs.tag = "io"
    /\ last.op = "basic"
    /\ last.name = Id("region")
    /\ last.dir = DirP
    /\ last.st = "val"

\* C7: within one directory the first source that gives the name a value, in
\* the order override file, locals, outputs, decides the result (for
\* resolveVariableValueEnhanced: a value without nested references), and when
\* an override file gives the value no .tf file is read.
C7_OrderInDirectory ==
    (/\ Resolved
     /\ ~stale
     /\ DeclaresAny(last.name, last.dir)
     /\ last.op = "enhanced" => ~HasRef(FirstDeclared(last.name, last.dir)))
    => /\ last.st = "val"
       /\ last.v = FirstDeclared(last.name, last.dir)
       /\ Declares("tfvars", last.name, last.dir) => \A path \in last.reads : TfvarsPath(path)

\* an override file and a locals declaration both give the name a value
C7_Witness ==
    /\ Resolved
    /\ ~stale
    /\ Declares("tfvars", last.name, last.dir)
    /\ Declares("locals", last.name, last.dir)
    /\ last.v = Declared("tfvars", last.name, last.dir)
    /\ last.reads # {}

\* C8 as stated: when D declares nothing for x and D's parent, inside the
\* workspace, declares x, resolving x from D returns the parent's value.
C8_ParentValue ==
    (/\ Resolved
     /\ ~stale
     /\ ~DeclaresAny(last.name, last.dir)
     /\ Inside(Dirname(last.dir))
     /\ DeclaresAny(last.name, Dirname(last.dir)))
    => /\ last.st = "val"
       /\ last.v = FirstDeclared(last.name, Dirname(last.dir))

\* C8, amended: resolveVariableValue returns the parent's value;
\* resolveVariableValueEnhanced returns it when no module call of the parent
\* whose source names D passes an argument named x.
C8_ParentValueUnlessPassed ==
    (/\ Resolved
     /\ ~stale
     /\ ~DeclaresAny(last.name, last.dir)
     /\ Inside(Dirname(last.dir))
     /\ DeclaresAny(last.name, Dirname(last.dir))
     /\ last.op = "enhanced" => CallsPassing(last.name, Dirname(last.dir), last.dir) = {})
    => /\ last.st = "val"
       /\ last.v = FirstDeclared(last.name, Dirname(last.dir))

C8_Witness ==
    /\ last.op = "enhanced"
    /\ ~stale
    /\ last.dir = DirP
    /\ ~DeclaresAny(last.name, DirP)
    /\ DeclaresAny(last.name, WorkspaceRoot)
    /\ last.v = FirstDeclared(last.name, WorkspaceRoot)

\* C9: when a module call in P whose source names P/child passes
\* size = var.env_size and env_size is declared only in P,
\* resolveVariableValueEnhanced for size from P/child returns the value
\* env_size has in P.
C9_ModuleInput ==
    (/\ last.op = "enhanced"
     /\ ~stale
     /\ ~DeclaresAny(last.name, last.dir)
     /\ \E m \in CallsPassing(last.name, Dirname(last.dir), last.dir) :
            /\ m.variables[last.name.a] = <<VarRef("env_size")>>
            /\ DeclaresAny(Id("env_size"), Dirname(last.dir))
            /\ ~DeclaresAny(Id("env_size"), last.dir))
    => /\ last.st = "val"
       /\ last.v = FirstDeclared(Id("env_size"), Dirname(last.dir))

C9_Witness ==
    /\ last.op = "enhanced"
    /\ ~stale
    /\ last.name = Id("size")
    /\ last.dir = DirC
    /\ CallsPassing(last.name, DirP, DirC) # {}
    /\ last.v = <<Lit("large")>>

C11_ParentStaysInside ==
    (Resolved /\ Inside(last.dir))
    => \A step \in last.parents : Inside(step[1]) => Inside(step[2])

\* a name that only the parent of the workspace root declares, asked for two
\* levels below the root: the search climbs to the root and ends not-found
C11_Witness ==
    /\ Resolved
    /\ last.dir = DirC
    /\ Declares("tfvars", last.name, DirOutside)
    /\ <<DirP, WorkspaceRoot>> \in last.parents
    /\ last.st = "null"

\* C12: resolveVariableInMultipleContexts returns exactly the search
\* directories whose resolution gives a non-empty value, each with that
\* value, in the order of the list of search directories, whatever the
\* order in which the resolutions complete.
C12_ResultsInCandidateOrder ==
    last.op = "joined" =>
        LET hits == {i \in 1..Len(last.dirs) :
                        last.expect[i].st = "val" /\ last.expect[i].v # <<>>}
        IN /\ Len(last.results) = Cardinality(hits)
           /\ \A i \in hits :
                 last.results[Cardinality({h \in hits : h <= i})]
                    = [value |-> last.expect[i].v, directory |-> last.dirs[i]]

\* the callback of the last search directory completed first and two
\* different directories gave a value
C12_Witness ==
    /\ last.op = "joined"
    /\ last.done[1] = Len(last.dirs)
    /\ Len(last.results) >= 2
    /\ last.results[1].directory # last.results[2].directory

\* C13: a search directory that does not exist contributes no
\* (value, directory) entry to the result of
\* resolveVariableInMultipleContexts.
C13_MissingDirectorySkipped ==
    last.op = "multi" =>
        \A j \in 1..Len(last.results) : last.results[j].directory \in DOMAIN fs.dirs

\* the keys of the entries of c
KeysOf(c) == {c[i].key : i \in 1..Len(c)}

\* C14: get(key) returns the value of the latest set of the key exactly
\* when the entry is present and that set lies at most TTL before the read,
\* whatever reads came in between; a read of an older entry returns absent
\* and removes the entry.
C14_TtlFromSet ==
    last.op = "get" =>
        LET present == last.key \in KeysOf(last.pre)
            fresh == last.t - last.at[last.key] <= TTL
        IN /\ last.hit <=> (present /\ fresh)
           /\ last.hit => last.value = last.val[last.key]
           /\ (present /\ ~fresh) => last.key \notin KeysOf(cache)

\* an entry read one millisecond after its set and read again one
\* millisecond after its TTL has lapsed
C14_Witness ==
    /\ last.op = "get"
    /\ ~last.hit
    /\ \E i \in 1..Len(last.pre) :
          /\ last.pre[i].key = last.key
          /\ last.pre[i].lastAccessed > last.pre[i].timestamp
          /\ last.t - last.pre[i].lastAccessed <= TTL

\* C15: after any sequence of get, set, invalidateFile, clear and sweep the
\* cache holds at most MAX_SIZE entries.
C15_AtMostMaxSize == Len(cache) <= MAX_SIZE

\* the entries of pre whose key is no longer in the cache
Evicted ==
    LET kept == KeysOf(cache) IN {i \in 1..Len(last.pre) : last.pre[i].key \notin kept}

\* C16: when set finds the cache at capacity, it evicts at most one entry,
\* and that entry's last-access time is the smallest of all entries.
C16_EvictsLeastRecentlyUsed ==
    (last.op = "set" /\ Len(last.pre) >= MAX_SIZE) =>
        LET evicted == Evicted
        IN /\ Cardinality(evicted) <= 1
           /\ \A i \in evicted : \A j \in 1..Len(last.pre) :
                 last.pre[i].lastAccessed <= last.pre[j].lastAccessed

\* the first entry has been read after the others, and the entry set finds
\* to evict is another one
C16_Witness ==
    /\ last.op = "set"
    /\ Len(last.pre) >= MAX_SIZE
    /\ LET evicted == Evicted
       IN /\ evicted # {}
          /\ 1 \notin evicted
          /\ \A i \in evicted : last.pre[1].lastAccessed > last.pre[i].lastAccessed

\* what the cache holds: the value under every key
Held(c) == {<<c[i].key, c[i].value>> : i \in 1..Len(c)}

\* a resolution has returned in this step
Returned == ops' = ops + 1 /\ last'.op \in {"basic", "enhanced"}

NullKept ==
    Returned =>
        /\ \A e \in Held(cache') \ Held(cache) : e[2] # <<>>
        /\ last'.st = "null" => Held(cache') = Held(cache)

NullStoresCallsOnly ==
    Returned =>
        /\ \A e \in Held(cache') \ Held(cache) : e[2] # <<>>
        /\ last'.st = "null" =>
              /\ Held(cache) \subseteq Held(cache')
              /\ \A e \in Held(cache') \ Held(cache) : e[1][1] = "module"

UpPath(dir) == {SubSeq(dir, 1, k) : k \in Len(WorkspaceRoot)..Len(dir)}

\* the directories on the way up that declare the name
DeclaringDirs(dir, n) == {d \in UpPath(dir) : DeclaresAny(n, d)}

Nearest(dir, n) ==
    CHOOSE d \in DeclaringDirs(dir, n) : \A e \in DeclaringDirs(dir, n) : Len(e) <= Len(d)

\* some module call passes the name as an argument
Passed(n) ==
    \E d \in DOMAIN fs.dirs : \E i \in 1..Len(fs.dirs[d].files) :
        \E j \in 1..Len(fs.dirs[d].files[i].modules) :
            n \in DOMAIN fs.dirs[d].files[i].modules[j].variables

\* a resolution of a plain name that a directory on the way up declares
\* with a literal value, with nothing out of date in the cache
NearCase ==
    /\ last.op \in {"basic", "enhanced"}
    /\ ~stale
    /\ last.name.k = "id"
    /\ ~Passed(last.name.a)
    /\ DeclaringDirs(last.dir, last.name) # {}
    /\ ~HasRef(FirstDeclared(last.name, Nearest(last.dir, last.name)))

C34_WitnessOwn ==
    /\ NearCase
    /\ Cardinality(DeclaringDirs(last.dir, last.name)) >= 3
    /\ last.dir \in DeclaringDirs(last.dir, last.name)

\* the directory is the workspace root or one of its descendants
InsideRoot(d) ==
    Len(d) >= Len(WorkspaceRoot) /\ SubSeq(d, 1, Len(WorkspaceRoot)) = WorkspaceRoot

\* C35: every directory resolveModulePath has returned is the workspace
\* root or a descendant of it, and no resolution reads a file of a
\* directory outside the root.
C35_ModulePathInsideRoot ==
    /\ \A key \in DOMAIN resolvedModulePaths : InsideRoot(resolvedModulePaths[key])
    /\ \A r \in last.reads : StartsWith(r, PathStr(WorkspaceRoot) \o <<"/">>)

\* a module source that leads to /o, which shares no prefix with the root,
\* is not found and /o is not read
C35_FarRefused ==
    (last.op \in {"basic", "enhanced"} /\ last.name = ModRef("far", "id"))
        => /\ last.st = "null"
           /\ \A r \in last.reads : ~StartsWith(r, PathStr(DirFar))

IsPrefix(s, t) == Len(s) <= Len(t) /\ SubSeq(t, 1, Len(s)) = s

\* C36: once the token is raised the call starts no turn of the loop, and
\* the hints it returns are a prefix of the hints the run over the same
\* text returns when the token is never raised; a call that is not
\* cancelled returns them all.
C36_CancelledPrefix ==
    last.op = "hints" =>
        /\ last.late = 0
        /\ IsPrefix(last.hints, last.full)
        /\ ~last.cancelled => last.hints = last.full

\* a cancelled call returned some of the hints and not all of them
C36_Witness ==
    /\ last.op = "hints"
    /\ last.cancelled
    /\ Len(last.hints) >= 1
    /\ Len(last.hints) < Len(last.full)

\* the backslashes that stand right before position i
BackslashRun(str, i) ==
    LET ks == {k \in 0..(i - 1) : \A j \in (i - k)..(i - 1) : str[j] = Backslash}
    IN CHOOSE k \in ks : \A l \in ks : l <= k

\* the character at i is neither escaped by a backslash nor a backslash
\* that escapes
Plain(str, i) == BackslashRun(str, i) % 2 = 0 /\ str[i] # Backslash

\* the character at i stands outside the double-quoted strings
OutsideString(str, i) ==
    Cardinality({j \in 1..(i - 1) : Plain(str, j) /\ str[j] = Quote}) % 2 = 0

BracesAt(str, brace, k) ==
    Cardinality({i \in 1..k : str[i] = brace /\ Plain(str, i) /\ OutsideString(str, i)})

\* every opening brace outside a string is closed later and no closing
\* brace comes before its opening one
BracesBalanced(str) ==
    /\ BracesAt(str, "{", Len(str)) = BracesAt(str, "}", Len(str))
    /\ \A k \in 1..Len(str) : BracesAt(str, "}", k) <= BracesAt(str, "{", k)

\* C38: hasMatchingBraces reports a text as balanced exactly when, of the
\* braces outside double-quoted strings and not escaped by a backslash,
\* every opening one is closed by a later closing one and no closing one
\* comes before its opening one.
C38_BalancedExactly ==
    last.op = "braces" => ((last.st = "val") <=> BracesBalanced(last.input))

\* the scanner counts the braces outside strings and not escaped: it
\* reports a text as balanced exactly when as many of them open as close
C38_CountsOutsideStrings ==
    last.op = "braces" =>
        ((last.st = "val") <=>
            BracesAt(last.input, "{", Len(last.input)) = BracesAt(last.input, "}", Len(last.input)))

\* the object has an object among its members
Nested(members) == \E i \in 1..Len(members) : members[i].sub # <<>>

\* C37: for an assignment name = { ... } parseHclVariable returns the value
\* built from the whole object, from the opening brace to the closing
\* brace that matches it, also when the object spans several lines and has
\* objects among its members.
C37_WholeObject ==
    last.op = "hcl" => (last.st = "val" /\ last.v = last.expected.whole)

\* the whole object is returned when it stands on one line, when it has no
\* object among its members, and when a comma follows every member
C37_WholeWhenSimple ==
    (/\ last.op = "hcl"
     /\ \/ ~last.expected.layout.multi
        \/ ~Nested(last.expected.members)
        \/ last.expected.layout.comma)
        => (last.st = "val" /\ last.v = last.expected.whole)

\* C39: parseModuleVariables returns an entry for every key = expr line of
\* the module body but the source line and the comment lines, and the
\* entry of a key is the text of its expression.
C39_EveryArgument ==
    last.op = "module" => last.v = last.expected

\* the body has an argument whose key begins with source, or one with a #
\* inside a string
Awkward(body) ==
    \E i \in 1..Len(body) :
        /\ body[i].kind = "arg"
        /\ body[i].key[1] = "source" \/ IndexOf(body[i].expr, "#") # 0

\* every argument is returned when no key begins with source and no
\* expression holds a #
C39_PlainArguments ==
    (last.op = "module" /\ ~Awkward(last.input)) => last.v = last.expected

\* the entry of an argument whose key begins with source is left out
C39_SourcePrefixLeftOut ==
    last.op = "module" =>
        \A i \in 1..Len(last.input) :
            (last.input[i].kind = "arg" /\ last.input[i].key[1] = "source")
                => last.input[i].key \notin DOMAIN last.v

\* C32: a set on a key that is present replaces the entry of that key and
\* removes the entry of no other key, at capacity too; an entry is evicted
\* only when the key is new and the cache holds MAX_SIZE entries.
C32_SetKeepsOthers ==
    last.op = "set" =>
        /\ last.key \in KeysOf(cache)
        /\ Evicted # {} => (last.key \notin KeysOf(last.pre) /\ Len(last.pre) >= MAX_SIZE)

\* the entries of pre whose key contains the fragment
Matching == {i \in 1..Len(last.pre) : Includes(last.pre[i].key, last.key)}

\* C17: invalidateFile(fragment) removes every entry whose key contains the
\* fragment and leaves every other entry as it was, in its place.
C17_InvalidateRemovesMatching ==
    last.op = "invalidate" =>
        LET matching == Matching
        IN /\ Len(cache) = Len(last.pre) - Cardinality(matching)
           /\ \A i \in (1..Len(last.pre)) \ matching :
                 cache[i - Cardinality({k \in matching : k < i})] = last.pre[i]

\* an invalidation that removes an entry and keeps another
C17_Witness ==
    /\ last.op = "invalidate"
    /\ Matching # {}
    /\ cache # <<>>

C19_SameAfterClear ==
    last.op = "again" => (last.st = last.first.st /\ last.v = last.first.v)

\* the first of the two calls ran on a cache an earlier call had filled
C19_Witness ==
    /\ last.op = "again"
    /\ ops > 1
    /\ last.kind = "enhanced"
    /\ last.name = Id("size")
    /\ last.dir = DirC
    /\ last.st = "val"
    /\ last.v = <<Lit("large")>>

\* C20: the references inside a module's output value are resolved from
\* the module's directory: module.net.cidr, whose output value is var.vpc,
\* asked for in the caller's directory has the value vpc has in the
\* directory of module net.
C20_FromModuleDirectory ==
    (/\ Resolved
     /\ fs.tag = "chain"
     /\ last.name = ModRef("net", "cidr")
     /\ last.dir = WorkspaceRoot)
    => /\ last.st = "val"
       /\ last.v = FirstDeclared(Id("vpc"), DirQ)

\* every (source, directory) pair the module-path map holds before a step
\* is still answered with the same directory after it
ModulePathsKept ==
    \A key \in DOMAIN resolvedModulePaths :
        /\ key \in DOMAIN resolvedModulePaths'
        /\ resolvedModulePaths'[key] = resolvedModulePaths[key]

\* C21 as stated: once resolveModulePath has resolved a (source, directory)
\* pair, the pair stays in the module-path map through every later step of
\* the resolver instance, whatever time passes.
C21_ModulePathKept == [][ModulePathsKept]_vars

\* C21, amended: the pair stays in the module-path map, whatever time
\* passes, through every step except clearCache(), which empties the map.
C21_ModulePathKeptUntilCleared == [][ClearCache \/ ModulePathsKept]_vars

\* a module output resolved through the map after more than the cache's
\* TTL has passed and an earlier call has filled the map
C21_Witness ==
    /\ Resolved
    /\ ops > 1
    /\ now > TTL
    /\ last.name = ModRef("net", "id")
    /\ last.st = "val"
    /\ ModulePathKey(RelSource(<< <<".">>, <<"q">> >>), WorkspaceRoot)
           \in DOMAIN resolvedModulePaths

\* the field of the literal whose key is the property name, as the
\* provider prints it
NamedField(obj, propertyName) ==
    LET at == {i \in 1..Len(obj.fields) : obj.fields[i].key = propertyName} IN
    IF at = {} THEN [st |-> "null", v |-> <<>>]
    ELSE [st |-> "val", v |-> RenderValue(obj.fields[First(at)])]

C23_VisitedRestored ==
    last.op \in {"basic", "enhanced", "multi"} => last.visited = {}

\* a resolution that ran into its own cycle and one that caught a read
\* error have returned
C23_Witness ==
    /\ Resolved
    /\ last.visited = {}
    /\ last.reads # {}
    /\ \/ fs.tag = "cycle" /\ last.name = Id("x") /\ last.st = "null"
       \/ fs.tag = "io" /\ last.name = Id("region") /\ last.dir = DirP

\* C24: a call for a (directory, reference) context that is already on the
\* call stack of its own resolution is answered not-found by the visited
\* test: no such call goes past the test.
C24_ReentryCut ==
    last.op \in {"basic", "enhanced", "multi"} => last.reentered = {}

\* C25: the recursion depth is bounded: every call of resolveVariableValue
\* and resolveVariableValueEnhanced that goes past the depth test has a
\* depth above that of every call on the stack and not above
\* maxRecursionDepth, and no call tree goes deeper than HardDepth.
C25_DepthBounded ==
    last.op \in {"basic", "enhanced", "multi"} => (last.faults = {} /\ ~last.div)

\* the chain longer than the bound was followed up to the bound: the call
\* at depth 11 gave not-found and left the reference a11 in the value
C25_Witness ==
    /\ last.op = "enhanced"
    /\ fs.tag = "chain"
    /\ last.name = Id(ChainName(0))
    /\ last.v = <<VarRef(ChainName(maxRecursionDepth + 1))>>
    /\ last.faults = {}

\* the value an argument of a module call has in the directory of the call
ArgumentValue(argument, parentDir) ==
    IF Len(argument) = 1 /\ argument[1].k = "var"
    THEN FirstDeclared(Id(argument[1].a), parentDir)
    ELSE argument

\* the module calls of CallsPassing that stand in a file that can be read
ReadableCallsPassing(n, dir, target) ==
    {m \in CallsPassing(n, dir, target) :
        /\ fs.dirs[dir].listable
        /\ \E i \in 1..Len(fs.dirs[dir].files) :
              /\ fs.dirs[dir].files[i].readable
              /\ \E j \in 1..Len(fs.dirs[dir].files[i].modules) :
                    fs.dirs[dir].files[i].modules[j] = m}

\* those of them that findModuleCallsToDirectory reaches: no file of the
\* directory before theirs fails to be read
ReachedCallsPassing(n, dir, target) ==
    {m \in ReadableCallsPassing(n, dir, target) :
        \E i \in 1..Len(fs.dirs[dir].files) :
            /\ \A k \in 1..i : fs.dirs[dir].files[k].ext = "tf" => fs.dirs[dir].files[k].readable
            /\ \E j \in 1..Len(fs.dirs[dir].files[i].modules) :
                  fs.dirs[dir].files[i].modules[j] = m}

\* C26: when a module call of the parent directory whose source names the
\* start directory passes an argument with the reference's name,
\* resolveVariableValueEnhanced returns the start directory's own value
\* when it has one, and otherwise the argument's value, also when the
\* parent directory declares the name itself.
C26_ModuleInputOrder ==
    (/\ last.op = "enhanced"
     /\ ~stale
     /\ Inside(Dirname(last.dir))
     /\ ReachedCallsPassing(last.name, Dirname(last.dir), last.dir) # {})
    => /\ last.st = "val"
       /\ IF DeclaresAny(last.name, last.dir)
          THEN last.v = FirstDeclared(last.name, last.dir)
          ELSE \E m \in ReachedCallsPassing(last.name, Dirname(last.dir), last.dir) :
                  last.v = ArgumentValue(m.variables[last.name.a], Dirname(last.dir))

\* the start directory's own value was used although a module call
\* passes the name
C26_WitnessOwn ==
    /\ last.op = "enhanced"
    /\ ~stale
    /\ ReachedCallsPassing(last.name, Dirname(last.dir), last.dir) # {}
    /\ DeclaresAny(last.name, last.dir)
    /\ last.v = FirstDeclared(last.name, last.dir)

\* the argument's value was returned although the parent directory
\* declares the name with another value
C26_Witness ==
    /\ last.op = "enhanced"
    /\ ~stale
    /\ ReachedCallsPassing(last.name, Dirname(last.dir), last.dir) # {}
    /\ ~DeclaresAny(last.name, last.dir)
    /\ DeclaresAny(last.name, Dirname(last.dir))
    /\ last.st = "val"
    /\ last.v # FirstDeclared(last.name, Dirname(last.dir))

\* C27: a file that cannot be read takes only its own content out of the
\* search: a value another readable file of the directory declares is
\* found, and so is the argument a module call in another readable file
\* of the parent directory passes.
C27_ReadFailureLocal ==
    /\ (/\ Resolved
        /\ ~stale
        /\ DeclaresAny(last.name, last.dir)
        /\ ~HasRef(FirstDeclared(last.name, last.dir)))
       => (last.st = "val" /\ last.v = FirstDeclared(last.name, last.dir))
    /\ (/\ last.op = "enhanced"
        /\ ~stale
        /\ Inside(Dirname(last.dir))
        /\ ~DeclaresAny(last.name, last.dir)
        /\ ReadableCallsPassing(last.name, Dirname(last.dir), last.dir) # {})
       => /\ last.st = "val"
          /\ \E m \in ReadableCallsPassing(last.name, Dirname(last.dir), last.dir) :
                last.v = ArgumentValue(m.variables[last.name.a], Dirname(last.dir))

\* C28: two resolveVariableValue calls for the same reference and
\* directory that run interleaved over unchanged files each return what a
\* call alone returns, and the cache entry left for the key holds that
\* value.
C28_RaceHarmless ==
    last.op = "race"
    => /\ \A k \in Tasks : last.results[k] = last.lone
       /\ last.lone.st = "val" => last.entry = last.lone

\* both calls went to the files: neither was answered from the cache
C28_Witness ==
    /\ last.op = "race"
    /\ last.lone.st = "val"
    /\ \A k \in Tasks : last.results[k] = last.lone
    /\ last.scans = Tasks
    /\ last.entry = last.lone

\* C29: a call whose first statement runs after the file has changed and
\* clearCache() has completed returns what the changed files give, also
\* when another call was in flight during clearCache().
C29_FreshAfterClear ==
    last.op = "race" => \A k \in last.fresh : last.results[k] = last.lone

====
